---- MODULE Spec2Model ----
(***************************************************************************)
(* The text-to-calendar-link pipeline of the "Add to calendar" browser     *)
(* extension: the tolerant JSON extractor, the calendar date normaliser,   *)
(* the link builders and the background script that drives them.           *)
(*                                                                         *)
(* Conventions.  A JavaScript string is a sequence of one-character        *)
(* strings.  A JavaScript value is a tagged tuple: <<"str", s>>,           *)
(* <<"null">>, <<"undefined">>, <<"obj", m>> (m the members, a sequence of *)
(* <<key, value>> pairs in insertion order, keys distinct) or               *)
(* <<"arr", a>>.  A Date is a record holding a UTC                         *)
(* day number (days since 1970-01-01) and a second of that day; the host   *)
(* time zone is a fixed offset tz in seconds east of UTC.                  *)
(***************************************************************************)
EXTENDS Integers, Sequences, FiniteSets, TLC

VARIABLES
  tz,           \* host time zone offset, seconds east of UTC
  currentYear,  \* new Date().getFullYear() of the host clock
  fnPc,         \* position of the function-level harness: "in" | "out"
  fnArg,        \* the inputs handed to the function under check
  fnRet,        \* what the function returned
  build,              \* the background script installed: "spinner" | "modal"
  pc,                 \* position of the extractDate invocation
  sText,              \* the selected text the listener hands to extractDate
  resultAccumulator,  \* the text of the last 'answer' event
  lastEvent,          \* type of the last provider event handled
  processingError,    \* message of the Error kept for the finally block
  shown,              \* spinnerShown (index.ts) / modalShown (modal build)
  pendingConfirmation,\* eventData of a showEventConfirmation send not yet settled
  currentEventData,   \* content script: the eventData under confirmation
  form,               \* content script: the values of the form's inputs
  openCalendarMsgs,   \* 'openCalendar' messages on their way to the background
  tabMsgs,            \* messages delivered to the tab's content script
  windows,            \* links a browser window was created on
  notifications,      \* browser notifications and page alerts shown
  formatCalls,        \* formatDateTimeForGoogle calls made, with their origin
  invocations,        \* the extractDate invocations in flight, one frame each
  storage,            \* Browser.storage.local: the keys the extension keeps
  tabs,               \* per tab: the content script's confirmation in progress
  page                \* one tab's page: overlays, their timers, the clock

fnVars == <<fnPc, fnArg, fnRet>>
envVars == <<tz, currentYear>>
siteVars == <<storage, tabs, page>>
pipeVars == <<build, pc, sText, resultAccumulator, lastEvent, processingError, shown,
              pendingConfirmation, currentEventData, form, openCalendarMsgs,
              tabMsgs, windows, notifications, formatCalls, invocations,
              storage, tabs, page>>

-----------------------------------------------------------------------------
(* JavaScript values *)

\* v bound to a name once: Let(e, LAMBDA x : body) is body with x standing for e
Let(v, F(_)) == F(v)

JStr(s) == <<"str", s>>
JNull == <<"null">>
JUndef == <<"undefined">>
JObj(f) == <<"obj", f>>
JArr(a) == <<"arr", a>>

IsStr(v) == v[1] = "str"
IsObj(v) == v[1] = "obj"

\* ToBoolean
Truthy(v) ==
  CASE v[1] = "str" -> v[2] # <<>>
    [] v[1] = "null" -> FALSE
    [] v[1] = "undefined" -> FALSE
    [] OTHER -> TRUE

\* a || b
Or(a, b) == IF Truthy(a) THEN a ELSE b

\* obj.key : undefined when the key is missing
HasKey(v, key) == IsObj(v) /\ \E i \in 1..Len(v[2]) : v[2][i][1] = key

Get(v, key) ==
  IF HasKey(v, key)
  THEN v[2][CHOOSE i \in 1..Len(v[2]) : v[2][i][1] = key][2]
  ELSE JUndef

\* Object.keys(obj).length
NumKeys(v) == Len(v[2])

EmptyMap == <<>>

\* obj[key] = value on a member list: a present key keeps its position
RECURSIVE SetMember(_, _, _)
SetMember(members, key, value) ==
  IF members = <<>> THEN <<<<key, value>>>>
  ELSE IF Head(members)[1] = key THEN <<<<key, value>>>> \o Tail(members)
  ELSE <<Head(members)>> \o SetMember(Tail(members), key, value)

\* the object after obj[key] = value
SetKey(obj, key, value) == JObj(SetMember(obj[2], key, value))

\* the keys of an extracted event
K_title == <<"t", "i", "t", "l", "e">>
K_startDate == <<"s", "t", "a", "r", "t", "D", "a", "t", "e">>
K_endDate == <<"e", "n", "d", "D", "a", "t", "e">>
K_location == <<"l", "o", "c", "a", "t", "i", "o", "n">>
K_description == <<"d", "e", "s", "c", "r", "i", "p", "t", "i", "o", "n">>
K_originalText == <<"o", "r", "i", "g", "i", "n", "a", "l", "T", "e", "x", "t">>

EventKeys == <<K_title, K_startDate, K_endDate, K_location, K_description>>

-----------------------------------------------------------------------------
(* Strings *)

Digits == <<"0", "1", "2", "3", "4", "5", "6", "7", "8", "9">>

IsDigit(c) == \E i \in 1..10 : Digits[i] = c

DigitVal(c) == (CHOOSE i \in 1..10 : Digits[i] = c) - 1

IsSpace(c) == c = " "

\* String.prototype.substring(from, to), 0-based, to exclusive, clamped
substring(s, from, to) ==
  LET hi == IF to > Len(s) THEN Len(s) ELSE to
  IN IF from >= hi THEN <<>> ELSE SubSeq(s, from + 1, hi)

\* String.prototype.indexOf(c): 0-based, -1 when absent
indexOf(s, c) ==
  IF \E i \in 1..Len(s) : s[i] = c
  THEN (CHOOSE i \in 1..Len(s) : s[i] = c /\ \A j \in 1..(i - 1) : s[j] # c) - 1
  ELSE -1

\* String.prototype.lastIndexOf(c)
lastIndexOf(s, c) ==
  IF \E i \in 1..Len(s) : s[i] = c
  THEN (CHOOSE i \in 1..Len(s) : s[i] = c /\ \A j \in (i + 1)..Len(s) : s[j] # c) - 1
  ELSE -1

RECURSIVE NatToStr(_)
NatToStr(n) ==
  IF n < 10 THEN <<Digits[n + 1]>>
  ELSE NatToStr(n \div 10) \o <<Digits[(n % 10) + 1]>>

\* Number.prototype.toString() of an integer
toString(n) == IF n < 0 THEN <<"-">> \o NatToStr(-n) ELSE NatToStr(n)

\* String.prototype.padStart(width, c)
RECURSIVE padStart(_, _, _)
padStart(s, width, c) ==
  IF Len(s) >= width THEN s ELSE padStart(<<c>> \o s, width, c)

\* String.prototype.trimStart(), trimEnd(), trim()
trimStart(s) ==
  IF \A i \in 1..Len(s) : IsSpace(s[i]) THEN <<>>
  ELSE SubSeq(s, CHOOSE i \in 1..Len(s) :
                   ~IsSpace(s[i]) /\ \A j \in 1..(i - 1) : IsSpace(s[j]), Len(s))

trimEnd(s) ==
  IF \A i \in 1..Len(s) : IsSpace(s[i]) THEN <<>>
  ELSE SubSeq(s, 1, CHOOSE i \in 1..Len(s) :
                      ~IsSpace(s[i]) /\ \A j \in (i + 1)..Len(s) : IsSpace(s[j]))

trim(s) == trimEnd(trimStart(s))

-----------------------------------------------------------------------------
(* JSON.parse, for texts whose values are strings, null, objects and arrays
   (no numbers, booleans or escape sequences occur in the texts drawn here).
   Positions are 1-based indexes into the text. *)

RECURSIVE SkipWs(_, _)
SkipWs(s, i) == IF i <= Len(s) /\ IsSpace(s[i]) THEN SkipWs(s, i + 1) ELSE i

PFail == [ok |-> FALSE, val |-> JNull, pos |-> 0]
POk(v, p) == [ok |-> TRUE, val |-> v, pos |-> p]

\* a string literal starting at the quote at position i
ParseString(s, i) ==
  IF i <= Len(s) /\ s[i] = "\"" /\ \E j \in (i + 1)..Len(s) : s[j] = "\""
  THEN LET j == CHOOSE j \in (i + 1)..Len(s) :
                  s[j] = "\"" /\ \A k \in (i + 1)..(j - 1) : s[k] # "\""
       IN POk(JStr(SubSeq(s, i + 1, j - 1)), j + 1)
  ELSE PFail

IsNullAt(s, i) ==
  i + 3 <= Len(s) /\ SubSeq(s, i, i + 3) = <<"n", "u", "l", "l">>

RECURSIVE ParseValue(_, _), ParseMembers(_, _, _), ParseElements(_, _, _)

\* a value starting at or after position i (leading whitespace skipped)
ParseValue(s, i) ==
  LET p == SkipWs(s, i)
  IN IF p > Len(s) THEN PFail
     ELSE IF s[p] = "\"" THEN ParseString(s, p)
     ELSE IF IsNullAt(s, p) THEN POk(JNull, p + 4)
     ELSE IF s[p] = "{" THEN
       LET q == SkipWs(s, p + 1)
       IN IF q <= Len(s) /\ s[q] = "}" THEN POk(JObj(EmptyMap), q + 1)
          ELSE ParseMembers(s, q, EmptyMap)
     ELSE IF s[p] = "[" THEN
       LET q == SkipWs(s, p + 1)
       IN IF q <= Len(s) /\ s[q] = "]" THEN POk(JArr(<<>>), q + 1)
          ELSE ParseElements(s, q, <<>>)
     ELSE PFail

\* the members of an object from position i on; a later duplicate key wins
ParseMembers(s, i, acc) ==
  LET k == ParseString(s, SkipWs(s, i))
  IN IF ~k.ok THEN PFail
     ELSE LET c == SkipWs(s, k.pos)
          IN IF c > Len(s) \/ s[c] # ":" THEN PFail
             ELSE LET v == ParseValue(s, c + 1)
                  IN IF ~v.ok THEN PFail
                     ELSE LET e == SkipWs(s, v.pos)
                              acc2 == SetMember(acc, k.val[2], v.val)
                          IN IF e > Len(s) THEN PFail
                             ELSE IF s[e] = "}" THEN POk(JObj(acc2), e + 1)
                             ELSE IF s[e] = "," THEN ParseMembers(s, e + 1, acc2)
                             ELSE PFail

\* the elements of an array from position i on
ParseElements(s, i, acc) ==
  LET v == ParseValue(s, i)
  IN IF ~v.ok THEN PFail
     ELSE LET e == SkipWs(s, v.pos)
          IN IF e > Len(s) THEN PFail
             ELSE IF s[e] = "]" THEN POk(JArr(Append(acc, v.val)), e + 1)
             ELSE IF s[e] = "," THEN ParseElements(s, e + 1, Append(acc, v.val))
             ELSE PFail

\* JSON.parse(text): ok is FALSE where JSON.parse throws
JSONParse(s) ==
  LET v == ParseValue(s, 1)
  IN IF v.ok /\ SkipWs(s, v.pos) = Len(s) + 1 THEN v ELSE PFail

-----------------------------------------------------------------------------
(* extractAndParseJSONFromString *)

\* jsonString.replace(/'/g, '"')
replaceQuotes(s) ==
  SubSeq([i \in 1..Len(s) |-> IF s[i] = "'" THEN "\"" ELSE s[i]], 1, Len(s))

\* the whitespace run starting at position i ends at a closing brace or bracket
CloserAfterSpaces(s, i) ==
  LET j == SkipWs(s, i)
  IN j <= Len(s) /\ s[j] \in {"}", "]"}

\* position i lies in a match of /,\s*([}\]])/ outside its captured closer:
\* the comma itself, or a space between the comma and the closer
InTrailingComma(s, i) ==
  \/ s[i] = "," /\ CloserAfterSpaces(s, i + 1)
  \/ /\ IsSpace(s[i])
     /\ CloserAfterSpaces(s, i)
     /\ \E c \in 1..(i - 1) : s[c] = "," /\ \A k \in (c + 1)..i : IsSpace(s[k])

\* jsonString.replace(/,\s*([}\]])/g, '$1'): every match keeps its closer only
removeTrailingCommas(s) ==
  LET kept == SelectSeq([i \in 1..Len(s) |-> i], LAMBDA i : ~InTrailingComma(s, i))
  IN SubSeq([k \in 1..Len(kept) |-> s[kept[k]]], 1, Len(kept))

\* variant: the slice ends at the first '}' instead of the last
extractToFirstClose(rawString) ==
  IF ~Truthy(rawString) \/ ~IsStr(rawString) THEN JNull
  ELSE LET startIndex == indexOf(rawString[2], "{")
           endIndex == indexOf(rawString[2], "}")
       IN IF startIndex = -1 \/ endIndex = -1 \/ endIndex < startIndex THEN JNull
          ELSE Let(JSONParse(removeTrailingCommas(replaceQuotes(
                     substring(rawString[2], startIndex, endIndex + 1)))),
                   LAMBDA r : IF r.ok THEN r.val ELSE JNull)

\* variant: no try/catch around JSON.parse, whose SyntaxError escapes
extractWithoutCatch(rawString) ==
  IF ~Truthy(rawString) \/ ~IsStr(rawString) THEN JNull
  ELSE LET startIndex == indexOf(rawString[2], "{")
           endIndex == lastIndexOf(rawString[2], "}")
       IN IF startIndex = -1 \/ endIndex = -1 \/ endIndex < startIndex THEN JNull
          ELSE Let(JSONParse(removeTrailingCommas(replaceQuotes(
                     substring(rawString[2], startIndex, endIndex + 1)))),
                   LAMBDA r : IF r.ok THEN r.val ELSE <<"throw", "SyntaxError">>)

\* rawString is a JavaScript value; the result is the parsed value, or null
extractAndParseJSONFromString(rawString) ==
  IF ~Truthy(rawString) \/ ~IsStr(rawString) THEN JNull
  ELSE LET startIndex == indexOf(rawString[2], "{")
           endIndex == lastIndexOf(rawString[2], "}")
       IN IF startIndex = -1 \/ endIndex = -1 \/ endIndex < startIndex THEN JNull
          ELSE Let(JSONParse(removeTrailingCommas(replaceQuotes(
                     substring(rawString[2], startIndex, endIndex + 1)))),
                   LAMBDA r : IF r.ok THEN r.val ELSE JNull)

-----------------------------------------------------------------------------
(* Dates.  A Date is [nan, day, sec]: the UTC day number since 1970-01-01
   and the second of that day; nan marks an Invalid Date. *)

SecPerDay == 24 * 60 * 60

InvalidDate == [nan |-> TRUE, day |-> 0, sec |-> 0]

\* day number of the civil date y-m-d (m in 1..12, d in the month)
DaysFromCivil(y, m, d) ==
  LET yy == IF m <= 2 THEN y - 1 ELSE y
      era == yy \div 400
      yoe == yy - era * 400
      mp == IF m > 2 THEN m - 3 ELSE m + 9
      doy == (153 * mp + 2) \div 5 + d - 1
      doe == yoe * 365 + yoe \div 4 - yoe \div 100 + doy
  IN era * 146097 + doe - 719468

\* the civil date [y, m, d] of a day number
CivilFromDays(z) ==
  LET zz == z + 719468
      era == zz \div 146097
      doe == zz - era * 146097
      yoe == (doe - doe \div 1460 + doe \div 36524 - doe \div 146096) \div 365
      doy == doe - (365 * yoe + yoe \div 4 - yoe \div 100)
      mp == (5 * doy + 2) \div 153
      d == doy - (153 * mp + 2) \div 5 + 1
      m == IF mp < 10 THEN mp + 3 ELSE mp - 9
  IN [y |-> IF m <= 2 THEN yoe + era * 400 + 1 ELSE yoe + era * 400,
      m |-> m, d |-> d]

\* ECMAScript MakeDay(year, month, date): month is 0-based and may lie outside
\* 0..11, date may lie outside the month; both carry over
MakeDay(year, month, date) ==
  DaysFromCivil(year + month \div 12, (month % 12) + 1, 1) + date - 1

\* a Date from a count of seconds relative to the start of a day number
MakeDate(day, sec) ==
  [nan |-> FALSE, day |-> day + sec \div SecPerDay, sec |-> sec % SecPerDay]

\* the calendar fields of a Date read at offset off from UTC
Fields(date, off) ==
  Let(MakeDate(date.day, date.sec + off), LAMBDA shifted :
    Let(CivilFromDays(shifted.day), LAMBDA c :
      [y |-> c.y, m |-> c.m, d |-> c.d,
       hh |-> shifted.sec \div 3600,
       mm |-> (shifted.sec % 3600) \div 60,
       ss |-> shifted.sec % 60]))

\* getFullYear(), getMonth() + 1, getDate(), ... : read in the host zone
LocalFields(date) == Fields(date, tz)

\* getUTCFullYear(), getUTCMonth() + 1, getUTCDate(), ...
UTCFields(date) == Fields(date, 0)

\* date.setFullYear(year): the local month, day and time of day are kept,
\* a day that the month of the new year lacks carries into the next month
setFullYear(date, year) ==
  Let(LocalFields(date), LAMBDA f :
    MakeDate(MakeDay(year, f.m - 1, f.d), f.hh * 3600 + f.mm * 60 + f.ss - tz))

AllDigits(s) == \A i \in 1..Len(s) : IsDigit(s[i])

RECURSIVE DigitsToNat(_)
DigitsToNat(s) ==
  IF s = <<>> THEN 0 ELSE DigitsToNat(SubSeq(s, 1, Len(s) - 1)) * 10 + DigitVal(s[Len(s)])

\* /^\d{4}-\d{2}-\d{2}$/.test(s)
IsDateOnlyForm(s) ==
  /\ Len(s) = 10
  /\ s[5] = "-" /\ s[8] = "-"
  /\ AllDigits(SubSeq(s, 1, 4)) /\ AllDigits(SubSeq(s, 6, 7)) /\ AllDigits(SubSeq(s, 9, 10))

\* the time part THH:mm or THH:mm:ss starting at position 11
IsTimeForm(s, n) ==
  /\ n \in {16, 19}
  /\ Len(s) >= n
  /\ s[11] = "T" /\ s[14] = ":"
  /\ AllDigits(SubSeq(s, 12, 13)) /\ AllDigits(SubSeq(s, 15, 16))
  /\ n = 19 => s[17] = ":" /\ AllDigits(SubSeq(s, 18, 19))

\* new Date(s) for the ISO forms YYYY-MM-DD, YYYY-MM-DDTHH:mm[:ss] and
\* YYYY-MM-DDTHH:mm[:ss]Z; every other text drawn here is unparseable.  The
\* date-only form is read as UTC, a date-time without offset as local time.
\* The day of the month is accepted up to 31 and carries over (V8).
DateParse(s) ==
  IF Len(s) < 10 \/ ~IsDateOnlyForm(SubSeq(s, 1, 10)) THEN InvalidDate
  ELSE LET y == DigitsToNat(SubSeq(s, 1, 4))
           m == DigitsToNat(SubSeq(s, 6, 7))
           d == DigitsToNat(SubSeq(s, 9, 10))
           hasZ == s[Len(s)] = "Z"
           n == IF hasZ THEN Len(s) - 1 ELSE Len(s)
       IN IF m \notin 1..12 \/ d \notin 1..31 THEN InvalidDate
          ELSE IF n = 10 THEN
            IF hasZ THEN InvalidDate ELSE MakeDate(MakeDay(y, m - 1, d), 0)
          ELSE IF ~IsTimeForm(s, n) THEN InvalidDate
          ELSE LET hh == DigitsToNat(SubSeq(s, 12, 13))
                   mm == DigitsToNat(SubSeq(s, 15, 16))
                   ss == IF n = 19 THEN DigitsToNat(SubSeq(s, 18, 19)) ELSE 0
                   off == IF hasZ THEN 0 ELSE tz
               IN IF hh > 23 \/ mm > 59 \/ ss > 59 THEN InvalidDate
                  ELSE MakeDate(MakeDay(y, m - 1, d), hh * 3600 + mm * 60 + ss - off)

Pad2(n) == padStart(toString(n), 2, "0")

\* formatDateTimeForGoogle with the year threshold as a parameter: the year is
\* replaced when inputYear < currentYear - slack
formatDateTime(dateTimeString, adjustPastYears, slack) ==
  IF ~Truthy(dateTimeString) THEN JNull
  ELSE IF ~IsStr(dateTimeString) THEN JNull
  ELSE Let(DateParse(dateTimeString[2]), LAMBDA parsed :
    IF parsed.nan THEN JNull
    ELSE Let(IF adjustPastYears /\ LocalFields(parsed).y < currentYear - slack
             THEN setFullYear(parsed, currentYear)
             ELSE parsed, LAMBDA date :
      IF IsDateOnlyForm(dateTimeString[2])
      THEN Let(LocalFields(date), LAMBDA l :
             JStr(toString(l.y) \o Pad2(l.m) \o Pad2(l.d)))
      ELSE Let(UTCFields(date), LAMBDA u :
             JStr(toString(u.y) \o Pad2(u.m) \o Pad2(u.d) \o <<"T">>
                  \o Pad2(u.hh) \o Pad2(u.mm) \o Pad2(u.ss) \o <<"Z">>))))

\* variant: the adjustPastYears flag is ignored and the year never replaced
formatNeverAdjusting(dateTimeString, adjustPastYears) ==
  formatDateTime(dateTimeString, FALSE, 0)

\* src/utils.ts and src/background/index.ts: adjust when inputYear < currentYear
formatDateTimeForGoogle(dateTimeString, adjustPastYears) ==
  formatDateTime(dateTimeString, adjustPastYears, 0)

\* the background script with the confirmation modal: adjust only when
\* inputYear < currentYear - 1
formatDateTimeForGoogleModal(dateTimeString, adjustPastYears) ==
  formatDateTime(dateTimeString, adjustPastYears, 1)

\* parseInt(s): the leading optionally signed digits, NaN when there are none
NaN == [nan |-> TRUE, n |-> 0]
Num(n) == [nan |-> FALSE, n |-> n]

LeadingDigits(s) ==
  IF \A i \in 1..Len(s) : IsDigit(s[i]) THEN s
  ELSE SubSeq(s, 1, (CHOOSE i \in 1..Len(s) :
                       ~IsDigit(s[i]) /\ \A j \in 1..(i - 1) : IsDigit(s[j])) - 1)

parseInt(str) ==
  LET s == trimStart(str)
      neg == s # <<>> /\ Head(s) = "-"
      body == IF s # <<>> /\ Head(s) \in {"-", "+"} THEN Tail(s) ELSE s
      ds == LeadingDigits(body)
  IN IF ds = <<>> THEN NaN
     ELSE Num(IF neg THEN 0 - DigitsToNat(ds) ELSE DigitsToNat(ds))

NaNText == <<"N", "a", "N">>

\* calculateNextDay: Date.UTC maps a year in 0..99 to 1900 + year; a NaN
\* field makes an Invalid Date, whose getters all return NaN
calculateNextDay(yyyymmdd) ==
  Let(<<parseInt(substring(yyyymmdd, 0, 4)), parseInt(substring(yyyymmdd, 4, 6)),
        parseInt(substring(yyyymmdd, 6, 8))>>, LAMBDA ymd :
    LET year == ymd[1]
        month == ymd[2]
        day == ymd[3]
    IN IF year.nan \/ month.nan \/ day.nan THEN NaNText \o NaNText \o NaNText
       ELSE LET fullYear == IF year.n \in 0..99 THEN 1900 + year.n ELSE year.n
                date == MakeDate(MakeDay(fullYear, month.n - 1, day.n), 0)
            IN Let(UTCFields(MakeDate(date.day + 1, 0)), LAMBDA next :
                 toString(next.y) \o Pad2(next.m) \o Pad2(next.d)))

-----------------------------------------------------------------------------
(* Calendar links.  A link is <<"url", params>>: the query parameters set on
   https://www.google.com/calendar/event (action=TEMPLATE left implicit), each
   a string or NoParam when the parameter is not set. *)

NoParam == <<"\\absent">>

Url(text, dates, location, details) ==
  <<"url", [text |-> text, dates |-> dates, location |-> location, details |-> details]>>

IsUrl(v) == v[1] = "url"

FallbackTitle ==
  <<"E", "v", "e", "n", "t", " ", "f", "r", "o", "m", " ", "T", "e", "x", "t">>

OriginalTextLabel ==
  <<"O", "r", "i", "g", "i", "n", "a", "l", " ", "T", "e", "x", "t", ":", "\n">>

ObjectText ==
  <<"[", "o", "b", "j", "e", "c", "t", " ", "O", "b", "j", "e", "c", "t", "]">>

\* String(v), as URLSearchParams.set and string concatenation apply it
RECURSIVE StringOf(_), JoinFrom(_, _)
StringOf(v) ==
  CASE v[1] = "str" -> v[2]
    [] v[1] = "null" -> <<"n", "u", "l", "l">>
    [] v[1] = "undefined" -> <<"u", "n", "d", "e", "f", "i", "n", "e", "d">>
    [] v[1] = "obj" -> ObjectText
    [] v[1] = "arr" -> JoinFrom(v[2], 1)

\* Array.prototype.join(","): null and undefined elements give the empty string
JoinFrom(a, i) ==
  IF i > Len(a) THEN <<>>
  ELSE (IF a[i][1] \in {"null", "undefined"} THEN <<>> ELSE StringOf(a[i]))
       \o (IF i < Len(a) THEN <<",">> ELSE <<>>) \o JoinFrom(a, i + 1)

\* typeof v === 'object'
TypeofObject(v) == v[1] \in {"obj", "arr", "null"}

\* variant: the end of an all-day range is not advanced by a day
dateParamInclusiveEnd(formattedStartDate, formattedEndDate) ==
  IF ~Truthy(formattedStartDate) THEN JNull
  ELSE LET fs == formattedStartDate[2]
       IN IF Truthy(formattedEndDate)
          THEN JStr(fs \o <<"/">> \o formattedEndDate[2])
          ELSE IF Len(fs) = 8 THEN JStr(fs \o <<"/">> \o fs) ELSE JStr(fs)

\* the dates parameter of createGoogleCalendarLink_Testable, from the two
\* formatted values (null when the start did not format)
dateParamTestable(formattedStartDate, formattedEndDate) ==
  IF ~Truthy(formattedStartDate) THEN JNull
  ELSE LET fs == formattedStartDate[2]
           startIsAllDay == Len(fs) = 8
       IN IF Truthy(formattedEndDate)
          THEN LET fe == formattedEndDate[2]
                   endIsAllDay == Len(fe) = 8
               IN IF startIsAllDay /\ endIsAllDay
                  THEN JStr(fs \o <<"/">> \o calculateNextDay(fe))
                  ELSE IF ~startIsAllDay /\ ~endIsAllDay
                  THEN JStr(fs \o <<"/">> \o fe)
                  ELSE JStr(fs \o <<"/">> \o fe)
          ELSE IF startIsAllDay
               THEN JStr(fs \o <<"/">> \o calculateNextDay(fs))
               ELSE JStr(fs)

\* variant: the link is returned without the check that the dates were set
linkWithoutDateCheck(jsonObject, info) ==
  Url(StringOf(Or(Get(jsonObject, K_title), JStr(FallbackTitle))),
      StringOf(dateParamTestable(formatDateTimeForGoogle(Get(jsonObject, K_startDate), TRUE),
                                 formatDateTimeForGoogle(Get(jsonObject, K_endDate), TRUE))),
      NoParam, NoParam)

\* src/utils.ts createGoogleCalendarLink_Testable(jsonObject, info)
createGoogleCalendarLink_Testable(jsonObject, info) ==
  IF ~Truthy(jsonObject) \/ ~TypeofObject(jsonObject) THEN JNull
  ELSE LET formattedStartDate == formatDateTimeForGoogle(Get(jsonObject, K_startDate), TRUE)
           formattedEndDate == formatDateTimeForGoogle(Get(jsonObject, K_endDate), TRUE)
           text == StringOf(Or(Get(jsonObject, K_title), JStr(FallbackTitle)))
           location == Get(jsonObject, K_location)
           description == Get(jsonObject, K_description)
           d1 == IF Truthy(description) THEN StringOf(description) ELSE <<>>
           detailsText == IF info # <<>>
                          THEN d1 \o (IF d1 # <<>> THEN <<"\n", "\n">> ELSE <<>>)
                                  \o OriginalTextLabel \o info
                          ELSE d1
       IN Let(dateParamTestable(formattedStartDate, formattedEndDate),
              LAMBDA dateParamValue :
                IF ~Truthy(dateParamValue) THEN JNull
                ELSE Url(text, dateParamValue[2],
                         IF Truthy(location) THEN StringOf(location) ELSE NoParam,
                         Let(detailsText, LAMBDA details :
                               IF details # <<>> THEN details ELSE NoParam)))

\* the dates parameter as the background scripts compute it once the start
\* has formatted (index.ts 128-143, handleOpenCalendar 655-670)
dateParamBackground(fs, formattedEndDate) ==
  LET startIsAllDay == Len(fs) = 8
  IN IF Truthy(formattedEndDate)
     THEN LET fe == formattedEndDate[2]
              endIsAllDay == Len(fe) = 8
          IN IF startIsAllDay /\ endIsAllDay
             THEN fs \o <<"/">> \o calculateNextDay(fe)
             ELSE IF ~startIsAllDay /\ ~endIsAllDay
             THEN fs \o <<"/">> \o fe
             ELSE IF startIsAllDay
                  THEN fs \o <<"/">> \o calculateNextDay(fs)
                  ELSE fs \o <<"/">> \o fe
     ELSE IF startIsAllDay
          THEN fs \o <<"/">> \o calculateNextDay(fs)
          ELSE fs

DetailsSeparator == <<"\n", "\n", "-", "-", "-", "\n">>

\* the details parameter of the background scripts: the description, then the
\* original text unless it equals the description after trimming
detailsBackground(description, original) ==
  Let(StringOf(Or(description, JStr(<<>>))), LAMBDA d1 :
    IF original # <<>> /\ trim(original) # trim(d1)
    THEN d1 \o (IF d1 # <<>> THEN DetailsSeparator ELSE <<>>) \o OriginalTextLabel \o original
    ELSE d1)

NoError == ""

\* one call of a build's formatDateTimeForGoogle: its two arguments
FormatCall(dateTimeString, adjustPastYears) ==
  [text |-> dateTimeString, adjust |-> adjustPastYears]

\* src/background/index.ts, onEvent on 'done': what the handler leaves in
\* processingError, the link it opens a window on (null when none) and the
\* calls of formatDateTimeForGoogle it makes (adjustPastYears defaulted to true)
onEventDone(rawOutput, info) ==
  Let(extractAndParseJSONFromString(JStr(rawOutput)), LAMBDA jsonObject :
    IF ~Truthy(jsonObject) \/ ~TypeofObject(jsonObject)
       \/ (IsObj(jsonObject) /\ NumKeys(jsonObject) = 0)
       \/ (jsonObject[1] = "arr" /\ jsonObject[2] = <<>>)
    THEN [processingError |->
            "Could not understand the response from AI. Please try again or rephrase.",
          url |-> JNull, calls |-> {}]
    ELSE LET adjustPastYears == TRUE
             calls == {FormatCall(Get(jsonObject, K_startDate), adjustPastYears),
                       FormatCall(Get(jsonObject, K_endDate), adjustPastYears)}
             location == Get(jsonObject, K_location)
         IN Let(formatDateTimeForGoogle(Get(jsonObject, K_startDate), adjustPastYears),
                LAMBDA formattedStartDate :
             IF ~Truthy(formattedStartDate)
             THEN [processingError |-> "Failed to extract a valid start date from the text.",
                   url |-> JNull, calls |-> calls]
             ELSE [processingError |-> NoError, calls |-> calls,
                   url |-> Url(StringOf(Or(Get(jsonObject, K_title), JStr(FallbackTitle))),
                               dateParamBackground(
                                 formattedStartDate[2],
                                 formatDateTimeForGoogle(Get(jsonObject, K_endDate),
                                                         adjustPastYears)),
                               IF Truthy(location) THEN StringOf(location) ELSE NoParam,
                               Let(detailsBackground(Get(jsonObject, K_description), info),
                                   LAMBDA detailsText :
                                     IF detailsText # <<>> THEN detailsText
                                     ELSE NoParam))]))

NoNotification == ""

\* handleOpenCalendar(eventData) of the background script with the confirmation
\* modal: the notification it shows, the link it opens a window on and the
\* calls of formatDateTimeForGoogle it makes.  A truthy title or original text
\* that is not a string has no trim method: the call throws and the catch
\* block logs it.
handleOpenCalendar(eventData) ==
  LET title == Get(eventData, K_title)
      startDate == Get(eventData, K_startDate)
      endDate == Get(eventData, K_endDate)
      location == Get(eventData, K_location)
      originalText == Get(eventData, K_originalText)
      stop(notify) == [notify |-> notify, url |-> JNull, calls |-> {}]
  IN IF ~Truthy(title) THEN stop("Event title is required")
     ELSE IF ~IsStr(title) THEN stop(NoNotification)
     ELSE IF trim(title[2]) = <<>> THEN stop("Event title is required")
     ELSE IF ~Truthy(startDate) THEN stop("Start date is required")
     ELSE LET adjustPastYears == FALSE
              calls == {FormatCall(startDate, adjustPastYears)}
                       \cup IF Truthy(endDate)
                            THEN {FormatCall(endDate, adjustPastYears)} ELSE {}
          IN Let(formatDateTimeForGoogleModal(startDate, adjustPastYears),
                 LAMBDA formattedStartDate :
               IF ~Truthy(formattedStartDate)
               THEN [notify |-> "Invalid start date format", url |-> JNull, calls |-> calls]
               ELSE IF Truthy(originalText) /\ ~IsStr(originalText)
               THEN [notify |-> NoNotification, url |-> JNull, calls |-> calls]
               ELSE [notify |-> NoNotification, calls |-> calls,
                     url |-> Url(title[2],
                                 dateParamBackground(
                                   formattedStartDate[2],
                                   IF Truthy(endDate)
                                   THEN formatDateTimeForGoogleModal(endDate, adjustPastYears)
                                   ELSE JNull),
                                 IF Truthy(location) THEN StringOf(location) ELSE NoParam,
                                 Let(detailsBackground(
                                       Get(eventData, K_description),
                                       IF Truthy(originalText) THEN originalText[2]
                                       ELSE <<>>),
                                     LAMBDA detailsText :
                                       IF detailsText # <<>> THEN detailsText
                                       ELSE NoParam))])

-----------------------------------------------------------------------------
(* The state of the background script and the content script before any
   context-menu click. *)

\* Browser.storage.local on installation; an absent successfulEvents or
\* reviewPromptDismissed key is read as 0 or false (result.key || 0), an absent
\* extension_logs key as []
EmptyStorage ==
  [successfulEvents |-> 0, reviewPromptDismissed |-> FALSE, extension_logs |-> <<>>]

REVIEW_PROMPT_INTERVAL == 2

\* content script, shouldShowReviewPrompt(), on the storage it reads
shouldShowReviewPrompt(store) ==
  /\ ~store.reviewPromptDismissed
  /\ store.successfulEvents > 0
  /\ store.successfulEvents % REVIEW_PROMPT_INTERVAL = 0

\* the tabs a content script runs in
Tabs == {"t1", "t2"}

\* a tab with no confirmation modal: prompt tells whether the review prompt
\* was put into the last confirmation, seen the count that decision read, read
\* the count incrementSuccessfulEvents read, completed the confirmations done
IdleTab ==
  [pc |-> "idle", prompt |-> FALSE, seen |-> 0, dismissed |-> FALSE, read |-> 0,
   completed |-> 0, logging |-> FALSE, existingLogs |-> <<>>, entry |-> 0, logged |-> 0]

\* a page with neither overlay: each overlay is "absent", "hidden" (in the
\* page without the visible class) or "visible"; timers are the setTimeout
\* callbacks pending with the time they are due at, now is the clock in ms
IdlePage ==
  [spinner |-> "absent", modal |-> "absent", timers |-> {}, request |-> "none"]

\* the names of the extractDate invocations that can be in flight together
Invocations == {"A", "B"}

\* one invocation's frame before its click: info is the selected text, acc the
\* invocation's own resultAccumulator, error its processingError, out the link
\* or eventData its 'done' handler produced; own (the text of the last 'answer'
\* event the invocation received), runs (the calls of the extractor made for
\* it) and parsed (the argument of the last such call) record what happened
IdleFrame ==
  [pc |-> "idle", info |-> <<>>, acc |-> <<>>, error |-> NoError, out |-> JNull,
   last |-> "none", own |-> JUndef, runs |-> 0, parsed |-> JUndef]

PipelineIdle ==
  /\ pc = "idle"
  /\ sText = <<>>
  /\ resultAccumulator = <<>>
  /\ lastEvent = "none"
  /\ processingError = NoError
  /\ shown = FALSE
  /\ pendingConfirmation = JNull
  /\ currentEventData = JNull
  /\ form = JNull
  /\ openCalendarMsgs = <<>>
  /\ tabMsgs = <<>>
  /\ windows = <<>>
  /\ notifications = <<>>
  /\ formatCalls = {}
  /\ invocations = [i \in Invocations |-> IdleFrame]
  /\ storage = EmptyStorage
  /\ tabs = [t \in Tabs |-> IdleTab]
  /\ page = IdlePage

-----------------------------------------------------------------------------
(* Function-level harness for the extractor: the raw text is drawn at
   Init, one step applies the extractor. *)

\* the characters raw texts are built from
JsonAlphabet == {"{", "}", "[", "]", "\"", "'", ",", ":", " ", "a"}

MaxAffix == 1

RECURSIVE StringsUpTo(_, _)
StringsUpTo(alphabet, n) ==
  IF n = 0 THEN {<<>>}
  ELSE LET shorter == StringsUpTo(alphabet, n - 1)
       IN shorter \cup {Append(s, c) : s \in shorter, c \in alphabet}

Quote(s) == <<"\"">> \o s \o <<"\"">>

\* well-formed JSON object texts
JsonTexts ==
  { <<"{", "}">>,
    <<"{">> \o Quote(<<"a">>) \o <<":">> \o Quote(<<"a">>) \o <<"}">>,
    <<"{">> \o Quote(<<"a">>) \o <<":", " ">> \o Quote(<<"a", "'", "a">>) \o <<"}">>,
    <<"{">> \o Quote(<<"a">>) \o <<":">> \o Quote(<<",", "}">>) \o <<"}">>,
    <<"{">> \o Quote(<<"a">>) \o <<":">> \o Quote(<<"{">>) \o <<"}">>,
    <<"{">> \o Quote(<<"a">>) \o <<":", "{", "}", ",">> \o Quote(<<"a", "a">>)
            \o <<":", "[">> \o Quote(<<>>) \o <<"]", " ", "}">>,
    <<"{", " ">> \o Quote(<<"a">>) \o <<":", "n", "u", "l", "l", "}">> }

\* near-miss texts the repair passes are for, and texts with no object
RepairTexts ==
  { <<"{", "'", "a", "'", ":", "'", "a", "'", "}">>,
    <<"{">> \o Quote(<<"a">>) \o <<":">> \o Quote(<<"a">>) \o <<",", " ", "}">>,
    <<"{">> \o Quote(<<"a">>) \o <<":", "[">> \o Quote(<<"a">>) \o <<",", "]", "}">>,
    <<"{">> \o Quote(<<"a">>) \o <<":", "}">>,
    <<"a", " ", "a">>,
    <<"}", "a", "{">>,
    <<>> }

InitJSON ==
  /\ tz = 0
  /\ currentYear = 2025
  /\ build = "spinner"
  /\ PipelineIdle
  /\ fnPc = "in"
  /\ fnRet = JUndef
  /\ \/ \E p \in StringsUpTo(JsonAlphabet, MaxAffix), J \in JsonTexts,
           x \in StringsUpTo(JsonAlphabet, MaxAffix) :
          fnArg = [fn |-> "extractJSON", prefix |-> p, json |-> J, suffix |-> x,
                   raw |-> JStr(p \o J \o x)]
     \/ \E r \in RepairTexts :
          fnArg = [fn |-> "extractJSON", prefix |-> <<>>, json |-> <<>>, suffix |-> <<>>,
                   raw |-> JStr(r)]
     \/ \E r \in {JNull, JUndef, JObj(EmptyMap)} :
          fnArg = [fn |-> "extractJSON", prefix |-> <<>>, json |-> <<>>, suffix |-> <<>>,
                   raw |-> r]

CallExtractJSON ==
  /\ fnPc = "in"
  /\ fnArg.fn = "extractJSON"
  /\ fnRet' = extractAndParseJSONFromString(fnArg.raw)
  /\ fnPc' = "out"
  /\ UNCHANGED <<fnArg, envVars, pipeVars>>

NextJSON == CallExtractJSON

-----------------------------------------------------------------------------
(* Function-level harness for the date normaliser: the host zone, the host
   year and the call's arguments are drawn at Init, one step applies the
   build's formatDateTimeForGoogle. *)

Pad4(n) == padStart(toString(n), 4, "0")

\* the text YYYY-MM-DD
IsoDate(y, m, d) == Pad4(y) \o <<"-">> \o Pad2(m) \o <<"-">> \o Pad2(d)

\* the text YYYY-MM-DDTHH:mm:ss
IsoDateTime(y, m, d, hh, mm, ss) ==
  IsoDate(y, m, d) \o <<"T">> \o Pad2(hh) \o <<":">> \o Pad2(mm) \o <<":">> \o Pad2(ss)

\* UTC-5, UTC and UTC+5:30
TimeZones == {-18000, 0, 19800}

CurrentYears == {2025, 2026}

IsLeap(y) == y % 4 = 0 /\ (y % 100 # 0 \/ y % 400 = 0)

InputDates ==
  {c \in {999, 2023, 2024, 2025, 2026}
          \X {<<1, 1>>, <<2, 29>>, <<12, 25>>, <<12, 31>>} :
     c[2] = <<2, 29>> => IsLeap(c[1])}

GarbageText == <<"i", "n", "v", "a", "l", "i", "d", "-", "d", "a", "t", "e">>

\* the arguments of one call: the text, its lexical kind, the flag, the build
FormatArgs ==
  {[fn |-> "format", kind |-> "date", text |-> JStr(IsoDate(c[1], c[2][1], c[2][2])),
    adjust |-> a, build |-> b] : c \in InputDates, a \in BOOLEAN, b \in {"utils", "modal"}}
  \cup
  {[fn |-> "format", kind |-> "datetime",
    text |-> JStr(IsoDateTime(c[1], c[2][1], c[2][2], t[1], t[2], t[3])),
    adjust |-> a, build |-> b] :
      c \in InputDates, t \in {<<0, 0, 0>>, <<10, 0, 0>>, <<23, 30, 0>>},
      a \in BOOLEAN, b \in {"utils", "modal"}}
  \cup
  {[fn |-> "format", kind |-> "other", text |-> x, adjust |-> a, build |-> b] :
      x \in {JNull, JUndef, JStr(<<>>), JStr(GarbageText),
             JStr(IsoDateTime(2024, 12, 5, 15, 0, 0) \o <<"Z">>)},
      a \in BOOLEAN, b \in {"utils", "modal"}}

InitFmt ==
  /\ tz \in TimeZones
  /\ currentYear \in CurrentYears
  /\ build = "spinner"
  /\ PipelineIdle
  /\ fnPc = "in"
  /\ fnRet = JUndef
  /\ fnArg \in FormatArgs

CallFormatUtils ==
  /\ fnPc = "in"
  /\ fnArg.fn = "format" /\ fnArg.build = "utils"
  /\ fnRet' = formatDateTimeForGoogle(fnArg.text, fnArg.adjust)
  /\ fnPc' = "out"
  /\ UNCHANGED <<fnArg, envVars, pipeVars>>

CallFormatModal ==
  /\ fnPc = "in"
  /\ fnArg.fn = "format" /\ fnArg.build = "modal"
  /\ fnRet' = formatDateTimeForGoogleModal(fnArg.text, fnArg.adjust)
  /\ fnPc' = "out"
  /\ UNCHANGED <<fnArg, envVars, pipeVars>>

NextFmt == CallFormatUtils \/ CallFormatModal

-----------------------------------------------------------------------------
(* Function-level harness for the link builders: an extracted event and the
   selected text are drawn at Init, one step applies one of the three
   builders.  The index.ts builder is reached through its 'done' handler, on
   the JSON text of the event. *)

\* the object with the listed <<key, value>> pairs; undefined values are left out
MkObj(pairs) == JObj(SelectSeq(pairs, LAMBDA p : p[2] # JUndef))

MkEvent(title, startDate, endDate, location, description) ==
  MkObj(<<<<K_title, title>>, <<K_startDate, startDate>>, <<K_endDate, endDate>>,
          <<K_location, location>>, <<K_description, description>>>>)

\* a structured location, as {"a":"a"}
StructuredLocation == JObj(<<<<<<"a">>, JStr(<<"a">>)>>>>)

\* the JSON text of a value: strings, null, the structured location
ValueText(v) ==
  CASE v[1] = "str" -> Quote(v[2])
    [] v[1] = "null" -> <<"n", "u", "l", "l">>
    [] v[1] = "obj" -> <<"{">> \o Quote(<<"a">>) \o <<":">> \o Quote(<<"a">>) \o <<"}">>

\* the JSON text of an event, members in the order of the prompt's template
RECURSIVE MembersText(_, _, _)
MembersText(ev, i, first) ==
  IF i > Len(EventKeys) THEN <<>>
  ELSE IF HasKey(ev, EventKeys[i])
       THEN (IF first THEN <<>> ELSE <<",", " ">>)
            \o Quote(EventKeys[i]) \o <<":", " ">> \o ValueText(Get(ev, EventKeys[i]))
            \o MembersText(ev, i + 1, FALSE)
       ELSE MembersText(ev, i + 1, first)

EventText(ev) == <<"{">> \o MembersText(ev, 1, TRUE) \o <<"}">>

LinkArgs ==
  {[fn |-> f, event |-> MkEvent(t, s, e, l, d), info |-> i] :
     f \in {"testable", "onEvent", "handleOpenCalendar"},
     \* title: absent, empty, blank, present
     t \in {JUndef, JStr(<<>>), JStr(<<" ">>), JStr(<<"a">>)},
     \* startDate: absent, null, empty, unparseable, all-day, timed
     s \in {JUndef, JNull, JStr(<<>>), JStr(GarbageText),
            JStr(IsoDate(2024, 12, 25)), JStr(IsoDate(999, 12, 25)),
            JStr(IsoDate(2025, 12, 31)),
            JStr(IsoDateTime(2024, 12, 5, 10, 0, 0)),
            JStr(IsoDateTime(2025, 12, 31, 23, 30, 0))},
     \* endDate: absent, null, unparseable, all-day, timed
     e \in {JUndef, JNull, JStr(GarbageText), JStr(IsoDate(2024, 12, 26)),
            JStr(IsoDate(2025, 1, 5)),
            JStr(IsoDateTime(2024, 12, 5, 11, 30, 0))},
     l \in {JUndef, JStr(<<"a">>), StructuredLocation},
     d \in {JNull, JStr(<<"a">>)},
     \* the selected text passed as info
     i \in {<<>>, <<"a">>, <<"a", " ">>}}

InitLink ==
  /\ tz \in TimeZones
  /\ currentYear \in CurrentYears
  /\ build = "spinner"
  /\ PipelineIdle
  /\ fnPc = "in"
  /\ fnRet = JUndef
  /\ fnArg \in LinkArgs

\* src/utils.ts: the builder returns the link or null
CallLinkTestable ==
  /\ fnPc = "in"
  /\ fnArg.fn = "testable"
  /\ fnRet' = createGoogleCalendarLink_Testable(fnArg.event, fnArg.info)
  /\ fnPc' = "out"
  /\ UNCHANGED <<fnArg, envVars, pipeVars>>

\* src/background/index.ts: the 'done' handler on the event's JSON text
CallOnEventDone ==
  /\ fnPc = "in"
  /\ fnArg.fn = "onEvent"
  /\ fnRet' = onEventDone(EventText(fnArg.event), fnArg.info).url
  /\ fnPc' = "out"
  /\ UNCHANGED <<fnArg, envVars, pipeVars>>

\* the eventData the modal build hands to handleOpenCalendar: every field
\* defaulted to '' and the selected text added (part_010 355-362)
prepareEventData(jsonObject, info) ==
  MkObj(<<<<K_title, Or(Get(jsonObject, K_title), JStr(<<>>))>>,
          <<K_startDate, Or(Get(jsonObject, K_startDate), JStr(<<>>))>>,
          <<K_endDate, Or(Get(jsonObject, K_endDate), JStr(<<>>))>>,
          <<K_location, Or(Get(jsonObject, K_location), JStr(<<>>))>>,
          <<K_description, Or(Get(jsonObject, K_description), JStr(<<>>))>>,
          <<K_originalText, JStr(info)>>>>)

CallHandleOpenCalendar ==
  /\ fnPc = "in"
  /\ fnArg.fn = "handleOpenCalendar"
  /\ fnRet' = handleOpenCalendar(prepareEventData(fnArg.event, fnArg.info)).url
  /\ fnPc' = "out"
  /\ UNCHANGED <<fnArg, envVars, pipeVars>>

NextLink == CallLinkTestable \/ CallOnEventDone \/ CallHandleOpenCalendar

-----------------------------------------------------------------------------
(* Function-level harness for calculateNextDay: the host zone and the text
   are drawn at Init, one step applies the function.  A text is either the
   eight digits of a calendar date (valid) or a string that is not. *)

DayArgs ==
  {[fn |-> "nextDay", valid |-> TRUE, y |-> c[1], m |-> c[2][1], d |-> c[2][2],
    text |-> Pad4(c[1]) \o Pad2(c[2][1]) \o Pad2(c[2][2])] :
     c \in {c \in {50, 99, 999, 2023, 2024, 2025, 9998}
                  \X {<<1, 1>>, <<1, 31>>, <<2, 28>>, <<2, 29>>, <<4, 30>>,
                      <<12, 30>>, <<12, 31>>} :
              c[2] = <<2, 29>> => IsLeap(c[1])}}
  \cup
  {[fn |-> "nextDay", valid |-> FALSE, y |-> 0, m |-> 0, d |-> 0, text |-> t] :
     t \in {<<>>, GarbageText, IsoDate(2024, 12, 25),
            <<"2", "0", "2", "4", "1", "3", "3", "2">>,
            <<"2", "0", "2", "4", "0", "2", "3", "0">>,
            <<"2", "0", "2", "4", "1", "2", "2">>,
            <<"2", "0", "2", "4", "a", "b", "2", "5">>}}

InitDay ==
  /\ tz \in TimeZones
  /\ currentYear \in CurrentYears
  /\ build = "spinner"
  /\ PipelineIdle
  /\ fnPc = "in"
  /\ fnRet = JUndef
  /\ fnArg \in DayArgs

CallCalculateNextDay ==
  /\ fnPc = "in"
  /\ fnArg.fn = "nextDay"
  /\ fnRet' = JStr(calculateNextDay(fnArg.text))
  /\ fnPc' = "out"
  /\ UNCHANGED <<fnArg, envVars, pipeVars>>

-----------------------------------------------------------------------------
(* The background script and the content script (Spec): one context-menu
   click carried from the listener through extractDate, the provider's events
   and the finally block, and in the build with the confirmation modal on to
   the form, the user's confirmation and handleOpenCalendar.  Whether a
   message reaches the tab is the environment's choice at every send. *)

\* the texts an 'answer' event carries: the empty object, prose with no
\* object, a malformed object, and four events
ModelAnswers ==
  { <<"{", "}">>,
    <<"a", " ", "a">>,
    <<"{">> \o Quote(<<"a">>) \o <<":", "}">>,
    \* an all-day event of a past year
    EventText(MkEvent(JStr(<<"a">>), JStr(IsoDate(2023, 12, 25)),
                      JStr(IsoDate(2023, 12, 25)), JNull, JNull)),
    \* a timed event with no end
    EventText(MkEvent(JStr(<<"a">>), JStr(IsoDateTime(2025, 12, 31, 23, 30, 0)),
                      JNull, JStr(<<"a">>), JNull)),
    \* a timed event with no title
    EventText(MkEvent(JNull, JStr(IsoDateTime(2024, 12, 5, 10, 0, 0)),
                      JStr(IsoDateTime(2024, 12, 5, 11, 30, 0)), JNull, JStr(<<"a">>))),
    \* an event whose start does not parse
    EventText(MkEvent(JStr(<<"a">>), JStr(GarbageText), JNull, JNull, JNull)) }

\* a message to the content script
Msg(action, payload) == [action |-> action, payload |-> payload]

\* a browser notification or a page alert; arg is the text interpolated
Notice(kind, message, arg) == [kind |-> kind, message |-> message, arg |-> arg]

\* the message of the Error kept on an 'error' event
errMsg(error) ==
  IF error \in {"Error", "string"} THEN "provider failure"
  ELSE IF build = "spinner" THEN "An error occurred during processing."
  ELSE "There was a problem communicating with the AI. Please try again later."

\* formatDateTimeForGoogle calls tagged with where their argument came from
Tagged(calls, origin) ==
  {[origin |-> origin, text |-> c.text, adjust |-> c.adjust] : c \in calls}

\* the template the modal build puts in place of an unusable extraction
emptyTemplate == MkEvent(JStr(<<>>), JStr(<<>>), JStr(<<>>), JStr(<<>>), JStr(<<>>))

\* content script, formatDateForInput(dateString): the local date and time as
\* YYYY-MM-DDTHH:MM, '' when the text is empty or does not parse
formatDateForInput(dateString) ==
  IF ~Truthy(dateString) \/ ~IsStr(dateString) THEN <<>>
  ELSE LET date == DateParse(dateString[2])
           l == LocalFields(date)
       IN IF date.nan THEN <<>>
          ELSE toString(l.y) \o <<"-">> \o Pad2(l.m) \o <<"-">> \o Pad2(l.d)
               \o <<"T">> \o Pad2(l.hh) \o <<":">> \o Pad2(l.mm)

\* content script, createEditableEventForm(eventData): the inputs' values
createEditableEventForm(eventData) ==
  MkEvent(Or(Get(eventData, K_title), JStr(<<>>)),
          JStr(formatDateForInput(Get(eventData, K_startDate))),
          JStr(formatDateForInput(Get(eventData, K_endDate))),
          Or(Get(eventData, K_location), JStr(<<>>)),
          Or(Get(eventData, K_description), JStr(<<>>)))

\* content script, collectFormData: the inputs' values and the original text
\* of the eventData under confirmation
collectFormData(formElement, current) ==
  SetKey(formElement, K_originalText,
         IF current = JNull THEN JStr(<<>>)
         ELSE Or(Get(current, K_originalText), JStr(<<>>)))

\* the notifications and alerts one click is followed through
MaxNotices == 2

Init ==
  /\ tz \in TimeZones
  /\ currentYear \in CurrentYears
  /\ build \in {"spinner", "modal"}
  /\ fnPc = "none"
  /\ fnArg = [fn |-> "none"]
  /\ fnRet = JUndef
  /\ PipelineIdle

\* contextMenus.onClicked: index.ts hands the selection to extractDate, which
\* returns at once without a tab id; the modal build first notifies when there
\* is no tab id or the content script cannot be reached or injected
Click ==
  /\ pc = "idle"
  /\ \E text \in {<<>>, <<"a">>}, hasTabId \in BOOLEAN,
        contentScriptAvailable \in BOOLEAN :
       IF ~hasTabId
       THEN /\ pc' = "finished"
            /\ notifications' = IF build = "modal"
                                THEN Append(notifications,
                                       Notice("notification",
                                              "Cannot process request: No valid tab ID", <<>>))
                                ELSE notifications
            /\ UNCHANGED sText
       ELSE IF build = "modal" /\ ~contentScriptAvailable
       THEN /\ pc' = "finished"
            /\ notifications' = Append(notifications,
                                 Notice("notification",
                                   "Cannot inject content script. Please refresh the page and try again.",
                                   <<>>))
            /\ UNCHANGED sText
       ELSE /\ pc' = "show"
            /\ sText' = text
            /\ UNCHANGED notifications
  /\ UNCHANGED <<envVars, fnVars, invocations, siteVars, build, resultAccumulator,
                 lastEvent, processingError, shown, pendingConfirmation, currentEventData,
                 form, openCalendarMsgs, tabMsgs, windows, formatCalls>>

\* extractDate, the first send: showSpinner (index.ts) or showModal.  A failed
\* showSpinner is only logged; a failed showModal notifies, keeps the error
\* and returns through the finally block, which only logs
ShowIndicator ==
  /\ pc = "show"
  /\ \E delivered \in BOOLEAN :
       IF delivered
       THEN /\ shown' = TRUE
            /\ tabMsgs' = Append(tabMsgs,
                 Msg(IF build = "spinner" THEN "showSpinner" ELSE "showModal", JUndef))
            /\ pc' = "provider"
            /\ UNCHANGED <<notifications, processingError>>
       ELSE IF build = "spinner"
       THEN /\ shown' = FALSE
            /\ pc' = "provider"
            /\ UNCHANGED <<tabMsgs, notifications, processingError>>
       ELSE /\ shown' = FALSE
            /\ notifications' = Append(notifications,
                                 Notice("notification",
                                   "Cannot display confirmation modal. Please refresh the page and try again.",
                                   <<>>))
            /\ processingError' =
                 "Cannot display confirmation modal. Please try refreshing the page and try again."
            /\ pc' = "finished"
            /\ UNCHANGED tabMsgs
  /\ UNCHANGED <<envVars, fnVars, invocations, siteVars, build, sText, resultAccumulator,
                 lastEvent, pendingConfirmation, currentEventData, form, openCalendarMsgs,
                 windows, formatCalls>>

\* getProvider(): returns the provider, or throws into the catch block
GetProvider ==
  /\ pc = "provider"
  /\ \E configured \in BOOLEAN :
       IF configured
       THEN pc' = "generate" /\ UNCHANGED processingError
       ELSE pc' = "finally" /\ processingError' = "getProvider failed"
  /\ UNCHANGED <<envVars, fnVars, invocations, siteVars, build, sText, resultAccumulator,
                 lastEvent, shown, pendingConfirmation, currentEventData, form,
                 openCalendarMsgs, tabMsgs, windows, notifications, formatCalls>>

\* onEvent, type 'answer': the accumulator takes the event's text
ProviderAnswer ==
  /\ pc = "generate"
  /\ \E text \in ModelAnswers : resultAccumulator' = text
  /\ lastEvent' = "answer"
  /\ UNCHANGED <<envVars, fnVars, invocations, siteVars, build, pc, sText, processingError,
                 shown, pendingConfirmation, currentEventData, form, openCalendarMsgs,
                 tabMsgs, windows, notifications, formatCalls>>

\* onEvent, type 'done', index.ts: extract, build the link, open the window
DoneSpinner ==
  /\ pc = "generate" /\ build = "spinner"
  /\ \E r \in {onEventDone(resultAccumulator, sText)} :
        /\ processingError' = r.processingError
        /\ windows' = IF IsUrl(r.url) THEN Append(windows, r.url) ELSE windows
        /\ formatCalls' = formatCalls \cup Tagged(r.calls, "model")
  /\ lastEvent' = "done"
  /\ pc' = "finally"
  /\ UNCHANGED <<envVars, fnVars, invocations, siteVars, build, sText, resultAccumulator,
                 shown, pendingConfirmation, currentEventData, form, openCalendarMsgs,
                 tabMsgs, notifications>>

\* onEvent, type 'done', modal build: extract, put the empty template in place
\* of an unusable result, default every field, and send the eventData for
\* confirmation (or, with no modal, open the calendar directly)
DoneModal ==
  /\ pc = "generate" /\ build = "modal"
  /\ \E eventData \in
          {prepareEventData(
             Let(extractAndParseJSONFromString(JStr(resultAccumulator)), LAMBDA jsonObject :
                   IF ~Truthy(jsonObject) \/ ~TypeofObject(jsonObject)
                   THEN emptyTemplate ELSE jsonObject),
             sText)} :
       \E r \in {handleOpenCalendar(eventData)} :
        IF shown
        THEN /\ pendingConfirmation' = eventData
             /\ UNCHANGED <<windows, notifications, formatCalls>>
        ELSE /\ notifications' =
                  (IF r.notify # NoNotification
                   THEN Append(Append(notifications,
                          Notice("notification", "Opening Google Calendar with event: ", Get(eventData, K_title))),
                          Notice("notification", r.notify, <<>>))
                   ELSE Append(notifications,
                          Notice("notification", "Opening Google Calendar with event: ", Get(eventData, K_title))))
             /\ windows' = IF IsUrl(r.url) THEN Append(windows, r.url) ELSE windows
             /\ formatCalls' = formatCalls \cup Tagged(r.calls, "model")
             /\ UNCHANGED pendingConfirmation
  /\ lastEvent' = "done"
  /\ pc' = "finally"
  /\ UNCHANGED <<envVars, fnVars, invocations, siteVars, build, sText, resultAccumulator,
                 processingError, shown, currentEventData, form, openCalendarMsgs, tabMsgs>>

\* onEvent, type 'error': the message is kept for the finally block
ProviderError ==
  /\ pc = "generate"
  /\ \E error \in {"Error", "string", "other"} : processingError' = errMsg(error)
  /\ lastEvent' = "error"
  /\ pc' = "finally"
  /\ UNCHANGED <<envVars, fnVars, invocations, siteVars, build, sText, resultAccumulator,
                 shown, pendingConfirmation, currentEventData, form, openCalendarMsgs,
                 tabMsgs, windows, notifications, formatCalls>>

\* the finally block: with the spinner or modal shown, an error is sent as
\* showError; without an error index.ts sends hideSpinner and the modal build
\* sends nothing; a failed send is only logged
Finally ==
  /\ pc = "finally"
  /\ \E delivered \in BOOLEAN :
       tabMsgs' =
         IF ~shown \/ ~delivered THEN tabMsgs
         ELSE IF processingError # NoError
         THEN Append(tabMsgs, Msg("showError", processingError))
         ELSE IF build = "spinner" THEN Append(tabMsgs, Msg("hideSpinner", JUndef))
         ELSE tabMsgs
  /\ pc' = "finished"
  /\ UNCHANGED <<envVars, fnVars, invocations, siteVars, build, sText, resultAccumulator,
                 lastEvent, processingError, shown, pendingConfirmation, currentEventData,
                 form, openCalendarMsgs, windows, notifications, formatCalls>>

\* the showEventConfirmation send resolves: the content script keeps the
\* eventData and shows the form filled from it
ConfirmationDelivered ==
  /\ pendingConfirmation # JNull
  /\ tabMsgs' = Append(tabMsgs, Msg("showEventConfirmation", pendingConfirmation))
  /\ currentEventData' = pendingConfirmation
  /\ form' = createEditableEventForm(pendingConfirmation)
  /\ pendingConfirmation' = JNull
  /\ tabs' = [tabs EXCEPT !["t1"].prompt = shouldShowReviewPrompt(storage),
                          !["t1"].seen = storage.successfulEvents,
                          !["t1"].dismissed = storage.reviewPromptDismissed]
  /\ UNCHANGED <<envVars, fnVars, invocations, storage, page, build, pc, sText,
                 resultAccumulator, lastEvent, processingError, shown, openCalendarMsgs,
                 windows, notifications, formatCalls>>

\* the showEventConfirmation send rejects: the catch handler notifies and
\* calls handleOpenCalendar on the eventData built from the model's output
ConfirmationFailed ==
  /\ pendingConfirmation # JNull
  /\ \E eventData \in {pendingConfirmation}, r \in {handleOpenCalendar(pendingConfirmation)} :
     LET opening == Append(notifications,
                           Notice("notification", "Opening Google Calendar with event: ", Get(eventData, K_title)))
     IN /\ notifications' = IF r.notify # NoNotification
                            THEN Append(opening, Notice("notification", r.notify, <<>>))
                            ELSE opening
        /\ windows' = IF IsUrl(r.url) THEN Append(windows, r.url) ELSE windows
        /\ formatCalls' = formatCalls \cup Tagged(r.calls, "model")
  /\ pendingConfirmation' = JNull
  /\ UNCHANGED <<envVars, fnVars, invocations, siteVars, build, pc, sText,
                 resultAccumulator, lastEvent, processingError, shown, currentEventData,
                 form, openCalendarMsgs, tabMsgs>>

\* the user, having typed over the title and the start or left them, clicks
\* 'Add to Calendar': a blank title or an empty start is refused with an alert;
\* otherwise the form data goes to the background as 'openCalendar' and the
\* modal is hidden
UserConfirm ==
  /\ form # JNull
  /\ Len(notifications) < MaxNotices
  /\ \E title \in {Get(form, K_title)[2]} \cup {<<>>, <<"b">>},
        startDate \in {Get(form, K_startDate)[2]}
                        \cup {<<>>, IsoDate(2023, 6, 1) \o <<"T", "0", "9", ":", "0", "0">>} :
       LET edited == SetKey(SetKey(form, K_title, JStr(title)),
                            K_startDate, JStr(startDate))
           updatedEventData == collectFormData(edited, currentEventData)
       IN IF trim(title) = <<>>
          THEN /\ notifications' = Append(notifications,
                                          Notice("alert", "Please enter an event title", <<>>))
               /\ form' = edited
               /\ UNCHANGED <<currentEventData, openCalendarMsgs, storage>>
          ELSE IF startDate = <<>>
          THEN /\ notifications' = Append(notifications,
                                          Notice("alert", "Please enter a start date and time", <<>>))
               /\ form' = edited
               /\ UNCHANGED <<currentEventData, openCalendarMsgs, storage>>
          ELSE /\ storage' = [storage EXCEPT !.successfulEvents = @ + 1]
               /\ openCalendarMsgs' = Append(openCalendarMsgs, updatedEventData)
               /\ form' = JNull
               /\ currentEventData' = JNull
               /\ UNCHANGED notifications
  /\ UNCHANGED <<envVars, fnVars, invocations, tabs, page, build, pc, sText,
                 resultAccumulator, lastEvent, processingError, shown, pendingConfirmation,
                 tabMsgs, windows, formatCalls>>

\* the user clicks 'Cancel': hideConfirmationModal
UserCancel ==
  /\ form # JNull
  /\ form' = JNull
  /\ currentEventData' = JNull
  /\ UNCHANGED <<envVars, fnVars, invocations, siteVars, build, pc, sText,
                 resultAccumulator, lastEvent, processingError, shown, pendingConfirmation,
                 openCalendarMsgs, tabMsgs, windows, notifications, formatCalls>>

\* runtime.onMessage, action 'openCalendar': handleOpenCalendar on the form data
OpenCalendarMessage ==
  /\ openCalendarMsgs # <<>>
  /\ \E r \in {handleOpenCalendar(Head(openCalendarMsgs))} :
        /\ notifications' = IF r.notify # NoNotification
                            THEN Append(notifications, Notice("notification", r.notify, <<>>))
                            ELSE notifications
        /\ windows' = IF IsUrl(r.url) THEN Append(windows, r.url) ELSE windows
        /\ formatCalls' = formatCalls \cup Tagged(r.calls, "form")
  /\ openCalendarMsgs' = Tail(openCalendarMsgs)
  /\ UNCHANGED <<envVars, fnVars, invocations, siteVars, build, pc, sText,
                 resultAccumulator, lastEvent, processingError, shown, pendingConfirmation,
                 currentEventData, form, tabMsgs>>

Next ==
  \/ Click
  \/ ShowIndicator
  \/ GetProvider
  \/ ProviderAnswer
  \/ DoneSpinner
  \/ DoneModal
  \/ ProviderError
  \/ Finally
  \/ ConfirmationDelivered
  \/ ConfirmationFailed
  \/ UserConfirm
  \/ UserCancel
  \/ OpenCalendarMessage

\* the provider after its 'done' event and before generateAnswer settles: a
\* further 'error' event runs the handler's 'error' branch, a rejection of
\* generateAnswer runs the catch block; both keep an Error for the finally block
LateProviderFailure ==
  /\ pc = "finally" /\ lastEvent = "done"
  /\ \E rejected \in BOOLEAN :
       IF rejected
       THEN processingError' = "provider failure" /\ UNCHANGED lastEvent
       ELSE processingError' = errMsg("other") /\ lastEvent' = "error"
  /\ UNCHANGED <<envVars, fnVars, invocations, siteVars, build, pc, sText,
                 resultAccumulator, shown, pendingConfirmation, currentEventData, form,
                 openCalendarMsgs, tabMsgs, windows, notifications, formatCalls>>

-----------------------------------------------------------------------------
(* Two extractDate invocations with their provider events interleaved
   (SpecConc), each from its generateAnswer call to its terminal event.  The
   provider delivers any number of 'answer' events and then exactly one of
   'done' and 'error'.  index.ts and the modal build declare resultAccumulator
   inside extractDate; the legacy build keeps previousResult at module level,
   held here in the variable resultAccumulator. *)

\* the texts an 'answer' event carries here: prose, an all-day event, a timed one
ConcTexts ==
  { <<"a", " ", "a">>,
    EventText(MkEvent(JStr(<<"a">>), JStr(IsoDate(2025, 12, 31)), JNull, JNull, JNull)),
    EventText(MkEvent(JStr(<<"a">>), JStr(IsoDateTime(2025, 12, 31, 23, 30, 0)),
                      JNull, JNull, JNull)) }

\* variant: an 'answer' event's text is appended to the accumulator
onAnswerAppending(accumulator, text) == accumulator \o text

\* onEvent, type 'answer': the accumulator after the event
onAnswer(accumulator, text) == text

\* onEvent, type 'done', on the accumulated text: the link a window is opened
\* on (index.ts, legacy build; null when none) or the eventData sent for
\* confirmation (modal build)
onDone(b, rawOutput, info) ==
  CASE b = "spinner" -> onEventDone(rawOutput, info).url
    [] b = "modal" ->
         prepareEventData(
           Let(extractAndParseJSONFromString(JStr(rawOutput)), LAMBDA jsonObject :
                 IF ~Truthy(jsonObject) \/ ~TypeofObject(jsonObject)
                 THEN emptyTemplate ELSE jsonObject),
           info)
    [] b = "legacy" ->
         Let(extractAndParseJSONFromString(JStr(rawOutput)), LAMBDA jsonObject :
               IF ~Truthy(jsonObject) \/ ~TypeofObject(jsonObject)
                  \/ NumKeys(jsonObject) = 0
               THEN JNull
               ELSE createGoogleCalendarLink_Testable(jsonObject, info))

InitConc ==
  /\ tz \in TimeZones
  /\ currentYear \in CurrentYears
  /\ build \in {"spinner", "modal", "legacy"}
  /\ fnPc = "none"
  /\ fnArg = [fn |-> "none"]
  /\ fnRet = JUndef
  /\ PipelineIdle

\* the listener calls extractDate(info): a new frame, its accumulator ''
StartExtraction ==
  \E i \in Invocations, info \in {<<"a">>, <<"b">>} :
    /\ invocations[i].pc = "idle"
    /\ invocations' = [invocations EXCEPT ![i].pc = "generate", ![i].info = info]
    /\ UNCHANGED <<envVars, fnVars, siteVars, build, pc, sText, resultAccumulator,
                   lastEvent, processingError, shown, pendingConfirmation, currentEventData,
                   form, openCalendarMsgs, tabMsgs, windows, notifications, formatCalls>>

\* an 'answer' event of invocation i
AnswerEvent ==
  \E i \in Invocations, text \in ConcTexts :
    /\ invocations[i].pc = "generate"
    /\ IF build = "legacy"
       THEN /\ resultAccumulator' = onAnswer(resultAccumulator, text)
            /\ invocations' = [invocations EXCEPT ![i].last = "answer",
                                                  ![i].own = JStr(text)]
       ELSE /\ invocations' = [invocations EXCEPT ![i].last = "answer",
                                                  ![i].own = JStr(text),
                                                  ![i].acc = onAnswer(@, text)]
            /\ UNCHANGED resultAccumulator
    /\ UNCHANGED <<envVars, fnVars, siteVars, build, pc, sText, lastEvent, processingError,
                   shown, pendingConfirmation, currentEventData, form, openCalendarMsgs,
                   tabMsgs, windows, notifications, formatCalls>>

\* the 'done' event of invocation i: the extractor runs on the accumulator the
\* handler reads, and the link is opened or the eventData sent to the tab
DoneEvent ==
  \E i \in Invocations :
    /\ invocations[i].pc = "generate"
    /\ \E rawOutput \in {IF build = "legacy" THEN resultAccumulator
                         ELSE invocations[i].acc} :
        \E out \in {onDone(build, rawOutput, invocations[i].info)} :
          /\ invocations' =
               [invocations EXCEPT
                  ![i].pc = "finished", ![i].last = "done", ![i].out = out,
                  ![i].runs = @ + 1, ![i].parsed = JStr(rawOutput),
                  ![i].error = IF build = "spinner"
                               THEN onEventDone(rawOutput, invocations[i].info).processingError
                               ELSE @]
          /\ windows' = IF build # "modal" /\ IsUrl(out) THEN Append(windows, out)
                        ELSE windows
          /\ tabMsgs' = IF build = "modal"
                        THEN Append(tabMsgs, Msg("showEventConfirmation", out))
                        ELSE tabMsgs
    /\ UNCHANGED <<envVars, fnVars, siteVars, build, pc, sText, resultAccumulator,
                   lastEvent, processingError, shown, pendingConfirmation, currentEventData,
                   form, openCalendarMsgs, notifications, formatCalls>>

\* the 'error' event of invocation i: index.ts and the modal build keep the
\* message for the finally block, the legacy build has no branch for it
ErrorEvent ==
  \E i \in Invocations, error \in {"Error", "string", "other"} :
    /\ invocations[i].pc = "generate"
    /\ invocations' =
         [invocations EXCEPT
            ![i].pc = "finished", ![i].last = "error",
            ![i].error = IF build = "legacy" THEN @ ELSE errMsg(error)]
    /\ UNCHANGED <<envVars, fnVars, siteVars, build, pc, sText, resultAccumulator,
                   lastEvent, processingError, shown, pendingConfirmation, currentEventData,
                   form, openCalendarMsgs, tabMsgs, windows, notifications, formatCalls>>

NextConc == StartExtraction \/ AnswerEvent \/ DoneEvent \/ ErrorEvent

-----------------------------------------------------------------------------
(* The confirmation modal's counter and review prompt in the tabs that share
   the extension's storage (SpecStore).  Every storage call is awaited, so a
   handler is split at each await: the get and the set of
   incrementSuccessfulEvents are two steps of a tab. *)

MaxEvents == 6

Confirmations ==
  tabs["t1"].completed + tabs["t2"].completed
    + Cardinality({t \in Tabs : tabs[t].pc = "incrementing"})

ShowConfirmation(t) ==
  /\ build = "modal"
  /\ tabs[t].pc = "idle"
  /\ tabs' = [tabs EXCEPT ![t].pc = "modal",
                          ![t].prompt = shouldShowReviewPrompt(storage),
                          ![t].seen = storage.successfulEvents,
                          ![t].dismissed = storage.reviewPromptDismissed]
  /\ UNCHANGED <<envVars, fnVars, invocations, storage, page, build, pc, sText,
                 resultAccumulator, lastEvent, processingError, shown,
                 pendingConfirmation, currentEventData, form, openCalendarMsgs,
                 tabMsgs, windows, notifications, formatCalls>>

ReviewNow(t) ==
  /\ tabs[t].pc = "modal"
  /\ tabs[t].prompt
  /\ storage' = [storage EXCEPT !.reviewPromptDismissed = TRUE]
  /\ UNCHANGED <<envVars, fnVars, invocations, tabs, page, build, pc, sText,
                 resultAccumulator, lastEvent, processingError, shown,
                 pendingConfirmation, currentEventData, form, openCalendarMsgs,
                 tabMsgs, windows, notifications, formatCalls>>

CancelConfirmation(t) ==
  /\ tabs[t].pc = "modal"
  /\ tabs' = [tabs EXCEPT ![t] = [IdleTab EXCEPT !.completed = tabs[t].completed]]
  /\ UNCHANGED <<envVars, fnVars, invocations, storage, page, build, pc, sText,
                 resultAccumulator, lastEvent, processingError, shown,
                 pendingConfirmation, currentEventData, form, openCalendarMsgs,
                 tabMsgs, windows, notifications, formatCalls>>

ConfirmGet(t) ==
  /\ tabs[t].pc = "modal"
  /\ Confirmations < MaxEvents
  /\ tabs' = [tabs EXCEPT ![t].pc = "incrementing",
                          ![t].read = storage.successfulEvents]
  /\ UNCHANGED <<envVars, fnVars, invocations, storage, page, build, pc, sText,
                 resultAccumulator, lastEvent, processingError, shown,
                 pendingConfirmation, currentEventData, form, openCalendarMsgs,
                 tabMsgs, windows, notifications, formatCalls>>

ConfirmSet(t) ==
  /\ tabs[t].pc = "incrementing"
  /\ storage' = [storage EXCEPT !.successfulEvents = tabs[t].read + 1]
  /\ tabs' = [tabs EXCEPT ![t] = [IdleTab EXCEPT !.completed = tabs[t].completed + 1]]
  /\ UNCHANGED <<envVars, fnVars, invocations, page, build, pc, sText,
                 resultAccumulator, lastEvent, processingError, shown,
                 pendingConfirmation, currentEventData, form, openCalendarMsgs,
                 tabMsgs, windows, notifications, formatCalls>>

NextStore ==
  \E t \in Tabs :
    \/ ShowConfirmation(t)
    \/ ReviewNow(t)
    \/ CancelConfirmation(t)
    \/ ConfirmGet(t)
    \/ ConfirmSet(t)

-----------------------------------------------------------------------------
(* Logger.log in the scripts that share the extension's storage (SpecLog).
   The callers do not await log, so calls overlap: a call is split at its
   awaited storage get.  A log entry is the number of its call, in call
   order.  maxLogEntries is 1000 in the source and scaled down here. *)

maxLogEntries == 2

MaxLogCalls == 4

LogCalls == tabs["t1"].logged + tabs["t2"].logged

KeepMostRecent(logs) ==
  IF Len(logs) > maxLogEntries
  THEN SubSeq(logs, Len(logs) - maxLogEntries + 1, Len(logs))
  ELSE logs

LogGet(t) ==
  /\ ~tabs[t].logging
  /\ LogCalls < MaxLogCalls
  /\ tabs' = [tabs EXCEPT ![t].logging = TRUE,
                          ![t].entry = LogCalls + 1,
                          ![t].existingLogs = storage.extension_logs,
                          ![t].logged = @ + 1]
  /\ UNCHANGED <<envVars, fnVars, invocations, storage, page, build, pc, sText,
                 resultAccumulator, lastEvent, processingError, shown,
                 pendingConfirmation, currentEventData, form, openCalendarMsgs,
                 tabMsgs, windows, notifications, formatCalls>>

LogSet(t) ==
  /\ tabs[t].logging
  /\ storage' = [storage EXCEPT !.extension_logs =
                   KeepMostRecent(Append(tabs[t].existingLogs, tabs[t].entry))]
  /\ tabs' = [tabs EXCEPT ![t].logging = FALSE, ![t].entry = 0,
                          ![t].existingLogs = <<>>]
  /\ UNCHANGED <<envVars, fnVars, invocations, page, build, pc, sText,
                 resultAccumulator, lastEvent, processingError, shown,
                 pendingConfirmation, currentEventData, form, openCalendarMsgs,
                 tabMsgs, windows, notifications, formatCalls>>

NextLog == \E t \in Tabs : LogGet(t) \/ LogSet(t)

-----------------------------------------------------------------------------
(* The overlays the content script keeps in the page (SpecPage).  The
   spinner build has one spinner overlay: "absent", "visible", "error"
   (visible with the error message) or "hidden" (in the page without the
   class visible).  The modal build has one modal overlay: "absent",
   "appended" (in the page, not yet revealed), "visible", "hiding" (the
   class visible removed by a hide) or "fallback".  A timer is [kind, left]:
   left is the time in milliseconds until it fires; timers fire in the order
   of their due times.  request is the last of showModal and hide. *)

Timer(kind, left) == [kind |-> kind, left |-> left]

\* clearTimeout(errorDisplayTimeoutId)
ClearErrorTimeout(timers) == {tm \in timers : tm.kind # "errorHide"}

\* the 10 ms callback of showConfirmationModal holds the overlay it was
\* created for: once that overlay has left the page it changes nothing there
DropReveal(timers) == {tm \in timers : tm.kind # "reveal"}

showSpinner(p) ==
  [p EXCEPT !.spinner = "visible", !.timers = ClearErrorTimeout(@)]

hideSpinner(p) ==
  IF p.spinner = "absent"
  THEN [p EXCEPT !.timers = ClearErrorTimeout(@)]
  ELSE [p EXCEPT !.spinner = "hidden",
                 !.timers = ClearErrorTimeout(@) \cup {Timer("remove", 350)}]

showErrorOnSpinner(p) ==
  IF p.spinner = "absent"
  THEN p
  ELSE [p EXCEPT !.spinner = "error",
                 !.timers = ClearErrorTimeout(@) \cup {Timer("errorHide", 3000)}]

showConfirmationModal(p) ==
  [p EXCEPT !.modal = "appended",
            !.timers = DropReveal(@) \cup {Timer("reveal", 10)}]

hideConfirmationModal(p) ==
  IF p.modal = "absent"
  THEN p
  ELSE [p EXCEPT !.modal = "hiding", !.timers = @ \cup {Timer("cleanup", 300)}]

\* the callback of a timer that is due
Callback(p, kind) ==
  CASE kind = "remove" ->
         IF p.spinner = "hidden" THEN [p EXCEPT !.spinner = "absent"] ELSE p
    [] kind = "errorHide" -> hideSpinner(p)
    [] kind = "reveal" ->
         IF p.modal = "absent" THEN p ELSE [p EXCEPT !.modal = "visible"]
    [] kind = "cleanup" ->
         IF p.modal \in {"appended", "hiding", "fallback"}
         THEN [p EXCEPT !.modal = "absent", !.timers = DropReveal(@)]
         ELSE p
    [] kind = "verify" ->
         IF p.modal = "absent" THEN [p EXCEPT !.modal = "fallback"] ELSE p

\* the waits between two requests, besides the wait for the next timer
Waits == {295}

\* the pending timers a request may leave behind
MaxTimers == 3

ExtractionStarts(i) ==
  /\ build = "spinner"
  /\ invocations[i].pc = "idle"
  /\ invocations' = [invocations EXCEPT ![i].pc = "generate"]
  /\ page' = showSpinner(page)
  /\ UNCHANGED <<envVars, fnVars, storage, tabs, build, pc, sText, resultAccumulator,
                 lastEvent, processingError, shown, pendingConfirmation,
                 currentEventData, form, openCalendarMsgs, tabMsgs, windows,
                 notifications, formatCalls>>

ExtractionEnds(i) ==
  /\ build = "spinner"
  /\ invocations[i].pc = "generate"
  /\ \E error \in {NoError, errMsg("Error")} :
       /\ invocations' = [invocations EXCEPT ![i].pc = "finished", ![i].error = error]
       /\ page' = IF error = NoError THEN hideSpinner(page)
                                     ELSE showErrorOnSpinner(page)
  /\ UNCHANGED <<envVars, fnVars, storage, tabs, build, pc, sText, resultAccumulator,
                 lastEvent, processingError, shown, pendingConfirmation,
                 currentEventData, form, openCalendarMsgs, tabMsgs, windows,
                 notifications, formatCalls>>

ShowModalMessage ==
  /\ build = "modal"
  /\ page' = [showConfirmationModal(page) EXCEPT
                !.timers = @ \cup {Timer("verify", 100)}, !.request = "showModal"]
  /\ Cardinality(page'.timers) <= MaxTimers
  /\ UNCHANGED <<envVars, fnVars, invocations, storage, tabs, build, pc, sText,
                 resultAccumulator, lastEvent, processingError, shown,
                 pendingConfirmation, currentEventData, form, openCalendarMsgs,
                 tabMsgs, windows, notifications, formatCalls>>

HideModalRequest ==
  /\ build = "modal"
  /\ page' = [hideConfirmationModal(page) EXCEPT !.request = "hide"]
  /\ Cardinality(page'.timers) <= MaxTimers
  /\ UNCHANGED <<envVars, fnVars, invocations, storage, tabs, build, pc, sText,
                 resultAccumulator, lastEvent, processingError, shown,
                 pendingConfirmation, currentEventData, form, openCalendarMsgs,
                 tabMsgs, windows, notifications, formatCalls>>

TimerFires ==
  /\ \E tm \in page.timers :
       /\ tm.left = 0
       /\ page' = Callback([page EXCEPT !.timers = @ \ {tm}], tm.kind)
  /\ UNCHANGED <<envVars, fnVars, invocations, storage, tabs, build, pc, sText,
                 resultAccumulator, lastEvent, processingError, shown,
                 pendingConfirmation, currentEventData, form, openCalendarMsgs,
                 tabMsgs, windows, notifications, formatCalls>>

TimePasses ==
  /\ page.timers # {}
  /\ \E d \in Waits \cup {tm.left : tm \in page.timers} :
       /\ d > 0
       /\ \A tm \in page.timers : tm.left >= d
       /\ page' = [page EXCEPT !.timers = {Timer(tm.kind, tm.left - d) : tm \in @}]
  /\ UNCHANGED <<envVars, fnVars, invocations, storage, tabs, build, pc, sText,
                 resultAccumulator, lastEvent, processingError, shown,
                 pendingConfirmation, currentEventData, form, openCalendarMsgs,
                 tabMsgs, windows, notifications, formatCalls>>

NextPage ==
  \/ \E i \in Invocations : ExtractionStarts(i) \/ ExtractionEnds(i)
  \/ ShowModalMessage
  \/ HideModalRequest
  \/ TimerFires
  \/ TimePasses

-----------------------------------------------------------------------------
(* The extractor on embedded JSON (SpecJSON) *)

Contains(s, c) == \E i \in 1..Len(s) : s[i] = c

\* a comma, optional spaces, then a closing brace or bracket
HasCommaCloser(s) ==
  \E i \in 1..Len(s), j \in 1..Len(s) :
    i < j /\ s[i] = "," /\ s[j] \in {"}", "]"} /\ \A k \in (i + 1)..(j - 1) : s[k] = " "

Embedded == fnPc = "out" /\ fnArg.json # <<>>

\* the embeddings the first-brace/last-brace slice and the two repair passes
\* leave intact
CleanEmbedding ==
  /\ Embedded
  /\ ~Contains(fnArg.prefix, "{")
  /\ ~Contains(fnArg.suffix, "}")
  /\ ~Contains(fnArg.json, "'")
  /\ ~HasCommaCloser(fnArg.json)

\* C1 as stated: for every well-formed JSON object text and every prefix and
\* suffix around it, the extractor returns the object the text denotes.
C1_AnyEmbedding ==
  Embedded => JSONParse(fnArg.json).ok /\ fnRet = JSONParse(fnArg.json).val

\* C1 amended: the extractor returns the object the text denotes when the
\* prefix holds no opening brace, the suffix no closing brace, and the text no
\* apostrophe and no comma followed by optional whitespace and a closing brace
\* or bracket.
C1_CleanEmbedding ==
  CleanEmbedding => JSONParse(fnArg.json).ok /\ fnRet = JSONParse(fnArg.json).val

C1_Witness ==
  /\ CleanEmbedding
  /\ fnArg.prefix = <<"}">>
  /\ fnArg.suffix = <<"{">>
  /\ IsObj(fnRet)
  /\ NumKeys(fnRet) = 2

-----------------------------------------------------------------------------
(* The link builders (SpecLink) *)

\* the formatter each builder applies to the event's dates
BuilderFormat(v) ==
  IF fnArg.fn = "handleOpenCalendar"
  THEN formatDateTimeForGoogleModal(v, FALSE)
  ELSE formatDateTimeForGoogle(v, TRUE)

FormattedStart == BuilderFormat(Get(fnArg.event, K_startDate))
FormattedEnd == BuilderFormat(Get(fnArg.event, K_endDate))

ArgTitle == Get(fnArg.event, K_title)

TitleIsBlank == ~Truthy(ArgTitle) \/ trim(ArgTitle[2]) = <<>>

\* the two shapes of a formatted date: YYYYMMDD and YYYYMMDDTHHmmssZ
IsAllDayShape(s) == Len(s) = 8 /\ AllDigits(s)

IsTimedShape(s) ==
  /\ Len(s) = 16
  /\ s[9] = "T" /\ s[16] = "Z"
  /\ AllDigits(SubSeq(s, 1, 8)) /\ AllDigits(SubSeq(s, 10, 15))

\* C3: for a start and an end of the same shape the dates parameter follows the
\* table: all-day start and no end gives start/nextDay(start); all-day start
\* and all-day end gives start/nextDay(end); timed start and no end gives the
\* start alone; timed start and timed end gives start/end.
C3_DateRangeTable ==
  (fnPc = "out" /\ IsUrl(fnRet)) =>
    LET fs == FormattedStart[2]
        fe == FormattedEnd
        dates == fnRet[2].dates
    IN /\ (IsAllDayShape(fs) /\ ~Truthy(fe))
            => dates = fs \o <<"/">> \o calculateNextDay(fs)
       /\ (IsAllDayShape(fs) /\ Truthy(fe) /\ IsAllDayShape(fe[2]))
            => dates = fs \o <<"/">> \o calculateNextDay(fe[2])
       /\ (IsTimedShape(fs) /\ ~Truthy(fe)) => dates = fs
       /\ (IsTimedShape(fs) /\ Truthy(fe) /\ IsTimedShape(fe[2]))
            => dates = fs \o <<"/">> \o fe[2]

C3_Witness ==
  /\ fnPc = "out" /\ fnArg.fn = "testable" /\ tz = 0 /\ currentYear = 2025
  /\ Get(fnArg.event, K_startDate) = JStr(IsoDate(2025, 12, 31))
  /\ Get(fnArg.event, K_endDate) = JNull
  /\ IsUrl(fnRet)
  /\ fnRet[2].dates = <<"2", "0", "2", "5", "1", "2", "3", "1", "/",
                        "2", "0", "2", "6", "0", "1", "0", "1">>

\* C4 as stated: when the start formats as all-day and the end as timed, or
\* the start as timed and the end as all-day, the link is built and its dates
\* parameter is start/end, the end used as formatted with no next day applied.
C4_MixedShapesUseEnd ==
  (/\ fnPc = "out"
   /\ ~TitleIsBlank
   /\ Truthy(FormattedStart) /\ Truthy(FormattedEnd)
   /\ \/ IsAllDayShape(FormattedStart[2]) /\ IsTimedShape(FormattedEnd[2])
      \/ IsTimedShape(FormattedStart[2]) /\ IsAllDayShape(FormattedEnd[2]))
  => /\ IsUrl(fnRet)
     /\ fnRet[2].dates = FormattedStart[2] \o <<"/">> \o FormattedEnd[2]

\* C5: when the start date is absent or does not format, no builder produces
\* a link, whatever the other fields hold.
C5_NoStartNoLink ==
  (fnPc = "out" /\ ~Truthy(FormattedStart)) => fnRet = JNull

C5_Witness ==
  /\ fnPc = "out"
  /\ Get(fnArg.event, K_startDate) = JStr(GarbageText)
  /\ ArgTitle = JStr(<<"a">>)
  /\ Truthy(FormattedEnd)
  /\ fnRet = JNull

\* C6 as stated: a start date that formats is enough for every builder to
\* produce a link, and a title that is empty or missing is replaced by the
\* fallback literal.
C6_StartSuffices ==
  (fnPc = "out" /\ Truthy(FormattedStart)) =>
    /\ IsUrl(fnRet)
    /\ ~Truthy(ArgTitle) => fnRet[2].text = FallbackTitle

-----------------------------------------------------------------------------
(* The date normaliser (SpecFmt) *)

WithoutHyphens(s) == SelectSeq(s, LAMBDA c : c # "-")

\* C7 as stated: for every date written YYYY-MM-DD and every host zone,
\* formatting without year adjustment returns the same year, month and day
\* with the hyphens removed.
C7_DateOnlyKeepsDay ==
  (fnPc = "out" /\ fnArg.kind = "date" /\ ~fnArg.adjust)
  => fnRet = JStr(WithoutHyphens(fnArg.text[2]))

\* C8 as stated: a non-null result is 8 digits exactly when the input matches
\* ^\d{4}-\d{2}-\d{2}$ and is otherwise a 16-character YYYYMMDDTHHmmssZ.
C8_TwoShapes ==
  (fnPc = "out" /\ fnRet # JNull) =>
    IF IsDateOnlyForm(fnArg.text[2])
    THEN Len(fnRet[2]) = 8 /\ AllDigits(fnRet[2])
    ELSE IsTimedShape(fnRet[2])

\* the year, in the host zone, of the instant a formatted value denotes
EmittedLocalYear(out) ==
  LET n == Len(out)
  IN IF out[n] = "Z"
     THEN LET y == DigitsToNat(SubSeq(out, 1, n - 12))
              m == DigitsToNat(SubSeq(out, n - 11, n - 10))
              d == DigitsToNat(SubSeq(out, n - 9, n - 8))
              hh == DigitsToNat(SubSeq(out, n - 6, n - 5))
              mm == DigitsToNat(SubSeq(out, n - 4, n - 3))
              ss == DigitsToNat(SubSeq(out, n - 2, n - 1))
          IN LocalFields(MakeDate(DaysFromCivil(y, m, d), hh * 3600 + mm * 60 + ss)).y
     ELSE DigitsToNat(SubSeq(out, 1, n - 4))

ParsedYear == LocalFields(DateParse(fnArg.text[2])).y

\* C9 as stated: with adjustPastYears true, a parsed year before the current
\* year is replaced by the current year and any other year is kept.
C9_PastYearReplaced ==
  (fnPc = "out" /\ fnArg.adjust /\ fnRet # JNull) =>
    EmittedLocalYear(fnRet[2]) =
      IF ParsedYear < currentYear THEN currentYear ELSE ParsedYear

\* C9 amended: with adjustPastYears true, src/utils.ts and
\* src/background/index.ts replace a parsed year before the current year; the
\* background script with the confirmation modal replaces only a parsed year
\* before the previous year; every other year is kept (years read in the host
\* zone).
C9_PastYearReplacedPerBuild ==
  (fnPc = "out" /\ fnArg.adjust /\ fnRet # JNull) =>
    LET slack == IF fnArg.build = "modal" THEN 1 ELSE 0
    IN EmittedLocalYear(fnRet[2]) =
         IF ParsedYear < currentYear - slack THEN currentYear ELSE ParsedYear

C9_Witness ==
  /\ fnPc = "out" /\ fnArg.adjust /\ fnArg.build = "utils"
  /\ currentYear = 2025 /\ tz = -18000
  /\ fnArg.text = JStr(IsoDateTime(2024, 12, 31, 23, 30, 0))
  /\ fnRet = JStr(<<"2", "0", "2", "6", "0", "1", "0", "1", "T",
                    "0", "4", "3", "0", "0", "0", "Z">>)

-----------------------------------------------------------------------------
(* The background script on the model's final text (Spec) *)

\* what the extractor makes of the text the 'done' event found accumulated
FinalExtraction == extractAndParseJSONFromString(JStr(resultAccumulator))

Delivered(action) == \E i \in 1..Len(tabMsgs) : tabMsgs[i].action = action

\* C2 as stated: once 'done' is handled, a final text that parses to the
\* empty object is not answered with an error message, and a final text the
\* extractor fails on is not answered with the form to fill in by hand: the
\* two cases never get the same outcome.
C2_EmptyObjectIsNotFailure ==
  lastEvent = "done" =>
    /\ FinalExtraction = JObj(EmptyMap) => ~Delivered("showError")
    /\ FinalExtraction = JNull => ~Delivered("showEventConfirmation")

\* C10 as stated: every date taken from the confirmed form is formatted with
\* adjustPastYears false, and every date taken from the model's output
\* without review is formatted with adjustPastYears true.
C10_AdjustFollowsOrigin ==
  \A c \in formatCalls :
    /\ c.origin = "form" => ~c.adjust
    /\ c.origin = "model" => c.adjust

-----------------------------------------------------------------------------
(* The details and location parameters (SpecLink) *)

\* the details parameter holds an 'Original Text:' section
HasOriginalTextSection(details) ==
  /\ details # NoParam
  /\ \E i \in 1..Len(details) :
       /\ i + Len(OriginalTextLabel) - 1 <= Len(details)
       /\ SubSeq(details, i, i + Len(OriginalTextLabel) - 1) = OriginalTextLabel

\* the event's description as text, '' when there is none
ArgDescription == StringOf(Or(Get(fnArg.event, K_description), JStr(<<>>)))

\* C13 as stated: the 'Original Text:' section is in the details only when
\* the selected text and the description differ after trimming; when they are
\* equal after trimming the details are the description alone.
C13_OriginalTextOnlyWhenDifferent ==
  (fnPc = "out" /\ IsUrl(fnRet)) =>
    /\ HasOriginalTextSection(fnRet[2].details)
         => trim(fnArg.info) # trim(ArgDescription)
    /\ trim(fnArg.info) = trim(ArgDescription)
         => fnRet[2].details = IF ArgDescription = <<>> THEN NoParam ELSE ArgDescription

\* C14 as stated: the location parameter is set only when the event's
\* location is a non-empty string, and is then that string; a structured
\* location is left out, never written as a stringified object.
C14_LocationOnlyNonEmptyString ==
  (fnPc = "out" /\ IsUrl(fnRet)) =>
    LET location == Get(fnArg.event, K_location)
    IN /\ fnRet[2].location # NoParam
            => IsStr(location) /\ location[2] # <<>> /\ fnRet[2].location = location[2]
       /\ fnRet[2].location # ObjectText

-----------------------------------------------------------------------------
(* Malformed input data (SpecCore: the extractor and the date normaliser) *)

\* a raw output with no object in it: null, undefined, not a string, empty,
\* with no opening or no closing brace, or the malformed object {"a":}
UnusableOutput(raw) ==
  \/ ~IsStr(raw)
  \/ raw[2] = <<>>
  \/ ~Contains(raw[2], "{") \/ ~Contains(raw[2], "}")
  \/ raw[2] = <<"{">> \o Quote(<<"a">>) \o <<":", "}">>

\* C15: for a raw output that is null, empty, not a string, brace-less or
\* malformed the extractor returns null, and for a date text that is null,
\* empty or unparseable the normaliser of either build returns null; neither
\* ends in an exception.
C15_MalformedInputGivesNull ==
  fnPc = "out" =>
    /\ (fnArg.fn = "extractJSON" /\ UnusableOutput(fnArg.raw)) => fnRet = JNull
    /\ (fnArg.fn = "format"
        /\ fnArg.text \in {JNull, JUndef, JStr(<<>>), JStr(GarbageText)}) => fnRet = JNull

C15_Witness ==
  /\ fnPc = "out" /\ fnArg.fn = "extractJSON"
  /\ fnArg.raw = JStr(<<"{">> \o Quote(<<"a">>) \o <<":", "}">>)
  /\ fnRet = JNull

-----------------------------------------------------------------------------
(* The provider's event stream (SpecConc) *)

\* the text of the last 'answer' event invocation i received, '' before any
LastOwnText(i) ==
  IF invocations[i].own = JUndef THEN JStr(<<>>) ELSE invocations[i].own

\* invocation i has its accumulator to itself: it is declared inside
\* extractDate, or no other invocation has received an event
Alone(i) ==
  build # "legacy" \/ \A j \in Invocations \ {i} : invocations[j].last = "none"

\* C16: within one extraction the extractor is run only when 'done' arrives,
\* exactly once, and on the text of the last 'answer' event received before
\* it; after 'error' the extractor has not been run and no link was built.
C16_ExtractorRunsOnceOnDone ==
  \A i \in Invocations :
    Alone(i) =>
      /\ invocations[i].last = "done" =>
           /\ invocations[i].runs = 1
           /\ invocations[i].own # JUndef => invocations[i].parsed = invocations[i].own
      /\ invocations[i].last # "done" =>
           /\ invocations[i].runs = 0
           /\ invocations[i].out = JNull

C16_Witness ==
  \E i \in Invocations, j \in Invocations :
    /\ Alone(i) /\ Alone(j)
    /\ invocations[i].last = "done" /\ invocations[i].own # JUndef
    /\ invocations[i].runs = 1 /\ invocations[i].parsed = invocations[i].own
    /\ IsUrl(invocations[i].out)
    /\ invocations[j].last = "error" /\ invocations[j].own # JUndef
    /\ invocations[j].runs = 0

\* C17: with the events of two extractions interleaved, each extraction parses
\* only the text of its own 'answer' events, and its link or eventData is the
\* one that text alone gives.
C17_NoInterference ==
  \A i \in Invocations :
    invocations[i].last = "done" =>
      /\ invocations[i].parsed = LastOwnText(i)
      /\ invocations[i].out = onDone(build, LastOwnText(i)[2], invocations[i].info)

-----------------------------------------------------------------------------
(* What the modal build sends the tab once the model is done (Spec) *)

\* v is '' or whitespace only, as !v || !v.trim() tells
BlankField(v) == ~Truthy(v) \/ (IsStr(v) /\ trim(v[2]) = <<>>)

AllFieldsBlank(eventData) ==
  \A k \in {K_title, K_startDate, K_endDate, K_location, K_description} :
    BlankField(Get(eventData, k))

\* C18: when the extracted data has all five fields blank the background sends
\* showExtractionError and no showEventConfirmation; with a field not blank it
\* sends showEventConfirmation and no showExtractionError.
C18_BlankDataIsExtractionError ==
  (build = "modal" /\ lastEvent = "done" /\ shown) =>
    IF AllFieldsBlank(onDone("modal", resultAccumulator, sText))
    THEN pendingConfirmation = JNull /\ ~Delivered("showEventConfirmation")
    ELSE ~Delivered("showExtractionError")

\* the showModal send of the modal build failed
ModalNotDisplayed ==
  /\ build = "modal"
  /\ processingError =
       "Cannot display confirmation modal. Please try refreshing the page and try again."

\* C19: whenever the confirmation modal cannot be displayed, the user is
\* notified and Google Calendar is opened directly with the extracted event:
\* the request does not end without a calendar window.
C19_ModalFailureOpensCalendar ==
  (ModalNotDisplayed /\ pc = "finished") =>
    /\ notifications # <<>>
    /\ windows # <<>>

-----------------------------------------------------------------------------
(* The wait for the provider (SpecFair) *)

\* the message of the timeout's Error
TimedOutMessage == "AI extraction timed out after 5 seconds"

\* C20: an extraction whose provider does not complete ends with a 'timed out'
\* error instead of waiting indefinitely: once generateAnswer is called, the
\* provider's terminal event is handled or the timeout's error is kept.
C20_ExtractionTimesOut ==
  (pc = "generate") ~> (lastEvent \in {"done", "error"} \/ processingError = TimedOutMessage)

-----------------------------------------------------------------------------
(* What the year adjustment leaves alone (SpecFmt) *)

\* the local calendar fields of an emitted value
EmittedLocalFields(out) ==
  LET n == Len(out)
  IN IF out[n] = "Z"
     THEN LocalFields(MakeDate(
            DaysFromCivil(DigitsToNat(SubSeq(out, 1, n - 12)),
                          DigitsToNat(SubSeq(out, n - 11, n - 10)),
                          DigitsToNat(SubSeq(out, n - 9, n - 8))),
            DigitsToNat(SubSeq(out, n - 6, n - 5)) * 3600
              + DigitsToNat(SubSeq(out, n - 4, n - 3)) * 60
              + DigitsToNat(SubSeq(out, n - 2, n - 1))))
     ELSE [y |-> DigitsToNat(SubSeq(out, 1, n - 4)),
           m |-> DigitsToNat(SubSeq(out, n - 3, n - 2)),
           d |-> DigitsToNat(SubSeq(out, n - 1, n))]

\* C29: year adjustment changes only the year: for every input date, 29
\* February included, the month and the day of the month of the emitted value
\* are those of the parsed input (both read in the host zone).
C29_AdjustmentKeepsMonthAndDay ==
  (fnPc = "out" /\ fnArg.fn = "format" /\ fnArg.adjust /\ fnRet # JNull) =>
    /\ EmittedLocalFields(fnRet[2]).m = LocalFields(DateParse(fnArg.text[2])).m
    /\ EmittedLocalFields(fnRet[2]).d = LocalFields(DateParse(fnArg.text[2])).d

-----------------------------------------------------------------------------
(* The order of the emitted range (SpecLink) *)

\* an emitted value as <<YYYYMMDD, HHMMSS>>, 0 for the time of an all-day value
Stamp(s) ==
  <<DigitsToNat(SubSeq(s, 1, 8)), IF Len(s) = 8 THEN 0 ELSE DigitsToNat(SubSeq(s, 10, 15))>>

NotAfter(a, b) == a[1] < b[1] \/ (a[1] = b[1] /\ a[2] <= b[2])

\* the start and the end of the event are strings that parse, the start not
\* after the end
InputOrdered ==
  /\ IsStr(Get(fnArg.event, K_startDate)) /\ IsStr(Get(fnArg.event, K_endDate))
  /\ LET s == DateParse(Get(fnArg.event, K_startDate)[2])
         e == DateParse(Get(fnArg.event, K_endDate)[2])
     IN ~s.nan /\ ~e.nan /\ NotAfter(<<s.day, s.sec>>, <<e.day, e.sec>>)

\* C23: when start and end both format (to the same shape) and the start is
\* not after the end in the input, the start of the emitted dates range is not
\* after its end, whatever the current year and the adjustPastYears setting.
C23_RangeKeepsOrder ==
  (/\ fnPc = "out" /\ IsUrl(fnRet) /\ InputOrdered
   /\ Truthy(FormattedStart) /\ Truthy(FormattedEnd)
   /\ \/ IsAllDayShape(FormattedStart[2]) /\ IsAllDayShape(FormattedEnd[2])
      \/ IsTimedShape(FormattedStart[2]) /\ IsTimedShape(FormattedEnd[2])) =>
    LET dates == fnRet[2].dates
        slash == indexOf(dates, "/")
    IN NotAfter(Stamp(SubSeq(dates, 1, slash)), Stamp(SubSeq(dates, slash + 2, Len(dates))))

-----------------------------------------------------------------------------
(* An all-day event through the confirmation form (Spec) *)

\* the start date of the model's final output
ExtractedStart == Get(FinalExtraction, K_startDate)

\* the model's output is an all-day event, and the calendar was opened on the
\* form's data with the dates the form was filled with
ConfirmedUnedited ==
  /\ build = "modal" /\ lastEvent = "done" /\ windows # <<>>
  /\ IsObj(FinalExtraction) /\ IsStr(ExtractedStart)
  /\ IsDateOnlyForm(ExtractedStart[2])
  /\ \E c \in formatCalls : c.origin = "form"
  /\ \A c \in formatCalls :
       c.origin = "form" =>
         c.text \in {JStr(formatDateForInput(ExtractedStart)),
                     JStr(formatDateForInput(Get(FinalExtraction, K_endDate)))}

\* C24: an all-day event the model extracts and the user confirms without
\* editing gives an all-day dates parameter for that calendar day, the 8-digit
\* start followed by the next day: the form changes neither shape nor day.
C24_FormKeepsAllDayEvent ==
  ConfirmedUnedited =>
    LET dates == windows[1][2].dates
    IN /\ Len(dates) = 17
       /\ SubSeq(dates, 1, 8) = WithoutHyphens(ExtractedStart[2])
       /\ IsAllDayShape(SubSeq(dates, 10, 17))

-----------------------------------------------------------------------------
(* Success and error outcomes of one extraction (SpecLate) *)

\* C25: no extraction both delivers a success outcome (a calendar window, or
\* showEventConfirmation reaching the tab) and sends showError to the tab,
\* whatever the provider does after its terminal event.
C25_NoErrorAfterSuccess ==
  ~(Delivered("showError") /\ (windows # <<>> \/ Delivered("showEventConfirmation")))

-----------------------------------------------------------------------------
(* The successful-events counter after one extraction (Spec) *)

\* C22: an extraction that failed, all five extracted fields blank, never
\* increments the successful-events counter.
C22_FailedExtractionNotCounted ==
  (/\ build = "modal" /\ lastEvent = "done"
   /\ AllFieldsBlank(onDone("modal", resultAccumulator, sText))) =>
    storage.successfulEvents = 0

-----------------------------------------------------------------------------
(* The review prompt and the counter across tabs (SpecStore) *)

PromptDue(t) ==
  /\ ~tabs[t].dismissed
  /\ tabs[t].seen > 0
  /\ tabs[t].seen % 5 = 0

\* C21: a confirmation modal carries the review prompt exactly when, at the
\* time it was built, the prompt had not been dismissed and the count of
\* successful events was a positive multiple of 5.
C21_PromptAtMultiplesOfFive ==
  \A t \in Tabs : tabs[t].pc = "modal" => (tabs[t].prompt <=> PromptDue(t))

Completed == tabs["t1"].completed + tabs["t2"].completed

\* C28: once every started confirmation has completed, the stored count of
\* successful events is the number of completed confirmations.
C28_CounterCountsConfirmations ==
  (\A t \in Tabs : tabs[t].pc # "incrementing") =>
    storage.successfulEvents = Completed

-----------------------------------------------------------------------------
(* The stored log (SpecLog) *)

MostRecentCalls ==
  LET kept == IF LogCalls > maxLogEntries THEN maxLogEntries ELSE LogCalls
  IN  [i \in 1..kept |-> LogCalls - kept + i]

\* C30: once every log call has returned, the stored log holds at most
\* maxLogEntries entries and they are the most recent calls, in call order.
C30_LogKeepsMostRecent ==
  (\A t \in Tabs : ~tabs[t].logging) =>
    /\ Len(storage.extension_logs) <= maxLogEntries
    /\ storage.extension_logs = MostRecentCalls

-----------------------------------------------------------------------------
(* The overlays while work is in progress (SpecPage) *)

InProgress(i) == invocations[i].pc = "generate"

\* C26: while an extraction started from the tab is still in progress, the
\* spinner overlay of the tab is visible.
C26_SpinnerStaysWhileRunning ==
  (build = "spinner" /\ \E i \in Invocations : InProgress(i)) =>
    page.spinner \in {"visible", "error"}

\* C27: after a showModal request and until the next hide request, the modal
\* overlay is in the page.
C27_ModalSurvivesEarlierHide ==
  (build = "modal" /\ page.request = "showModal") => page.modal # "absent"

-----------------------------------------------------------------------------
(* calculateNextDay (SpecDay) *)

\* the eight digits YYYYMMDD of the calendar day n days after y-m-d
DaysLater(y, m, d, n) ==
  LET c == CivilFromDays(DaysFromCivil(y, m, d) + n)
  IN Pad4(c.y) \o Pad2(c.m) \o Pad2(c.d)

\* C11 as stated: for every valid 8-digit date the result is the eight digits
\* of the following calendar day, and applying the function to the result
\* gives the day after that.
C11_NextDayAdvances ==
  (fnPc = "out" /\ fnArg.fn = "nextDay" /\ fnArg.valid) =>
    /\ fnRet[2] = DaysLater(fnArg.y, fnArg.m, fnArg.d, 1)
    /\ calculateNextDay(fnRet[2]) = DaysLater(fnArg.y, fnArg.m, fnArg.d, 2)

\* C12 as stated: for every string that is not a valid 8-digit date the
\* result is the input unchanged.
C12_MalformedReturnedUnchanged ==
  (fnPc = "out" /\ fnArg.fn = "nextDay" /\ ~fnArg.valid) => fnRet[2] = fnArg.text

-----------------------------------------------------------------------------

vars == <<envVars, fnVars, pipeVars>>

Spec == Init /\ [][Next]_vars

SpecJSON == InitJSON /\ [][NextJSON]_vars

SpecFmt == InitFmt /\ [][NextFmt]_vars

SpecLink == InitLink /\ [][NextLink]_vars

SpecDay == InitDay /\ [][CallCalculateNextDay]_vars

SpecCore == (InitJSON \/ InitFmt) /\ [][NextJSON \/ NextFmt]_vars

SpecConc == InitConc /\ [][NextConc]_vars

\* Spec with a provider that fails after its 'done' event
SpecLate == Init /\ [][Next \/ LateProviderFailure]_vars

SpecLog == Init /\ [][NextLog]_vars

SpecPage == Init /\ [][NextPage]_vars

SpecStore == Init /\ [][NextStore]_vars

\* Spec with the steps extractDate takes on its own: each of its sends to the
\* tab settles, getProvider returns or throws, and once generateAnswer has
\* settled the finally block runs.  The user and the provider owe no step.
SpecFair ==
  /\ Init /\ [][Next]_vars
  /\ WF_vars(ShowIndicator)
  /\ WF_vars(GetProvider)
  /\ WF_vars(Finally)

====
